---- MODULE Spec2Model ----
(***************************************************************************)
(* witskit: the transports (TCPReader, RequestingTCPReader, FileReader,    *)
(* SerialReader) that cut a character stream into "&&...!!" frames, the    *)
(* decoder that turns a frame into data points and errors, and the decode, *)
(* convert and stream commands of the command line.                        *)
(*                                                                         *)
(* Text is a sequence of one-character strings.  A transport's stream() is *)
(* a generator: the caller holds control while it is not started, while it *)
(* is suspended at a yield and after it has ended; close() can be called   *)
(* only then.                                                              *)
(***************************************************************************)
EXTENDS Integers, Sequences, FiniteSets, TLC

VARIABLES kind, text, pos, prev, buffer, yielded, pc, res, exc, cmd, out, creq, cres, sc

\* The transports' state and the commands' state: the decode command's
\* arguments and result, the convert command's arguments and result, the
\* stream command's arguments, locals and position.
tvars == <<kind, text, pos, prev, buffer, yielded, pc, res, exc>>
dvars == <<cmd, out, creq, cres, sc>>
vars == <<kind, text, pos, prev, buffer, yielded, pc, res, exc, cmd, out, creq, cres, sc>>

(* ------------------------------ bounds -------------------------------- *)

\* Longest input of the single-transport specification, in pieces.
MaxPieces == 3

\* The two transport instances of the interleaving specification.
Inst == {1, 2}

\* The source delivers bytes.  An ASCII byte is written as its character;
\* LeadByte and ContByte are the two bytes of the UTF-8 encoding of
\* TwoByteChar; the bytes of InvalidBytes occur in no encoding.
LeadByte == "xC3"
ContByte == "xA9"
TwoByteChar == "U+00E9"
InvalidBytes == {"xFF", "xFE"}

\* The pieces inputs are made of: both markers, their single characters,
\* a payload character, the two line end bytes, a whole frame and the
\* encoding of the two-byte character.
Pieces == { <<"&", "&">>, <<"!", "!">>, <<"&">>, <<"!">>, <<"a">>, <<"\n">>, <<"\r">>,
            <<"&", "&", "a", "!", "!">>, <<LeadByte, ContByte>> }

RECURSIVE Flat(_)
Flat(ps) == IF ps = <<>> THEN <<>> ELSE Head(ps) \o Flat(Tail(ps))

Texts == { Flat(ps) : ps \in UNION { [1..k -> Pieces] : k \in 0..MaxPieces } }

\* Inputs of the two-instance specification.
PairTexts == { <<"&", "&", "a", "!", "!">>,
               <<"!", "!", "&", "&", "b", "!", "!">> }

(* ------------------------- the marker scan ---------------------------- *)

START_MARKER == <<"&", "&">>
END_MARKER == <<"!", "!">>

\* recv(1024) / read(1024): the most characters one read returns.
RecvSize == 1024

Min(a, b) == IF a < b THEN a ELSE b

\* str.index, 0-based; -1 when m does not occur in s (the code never calls
\* index then: "in" guards it).
IndexOf(s, m) ==
  LET hits == { k \in 1..(Len(s) - Len(m) + 1) : SubSeq(s, k, k + Len(m) - 1) = m }
  IN  IF hits = {} THEN -1 ELSE (CHOOSE k \in hits : \A j \in hits : k <= j) - 1

\* m in s
Contains(s, m) == IndexOf(s, m) >= 0

\* s[a:b] for 0 <= a, 0 <= b: empty when b <= a.
Slice(s, a, b) == SubSeq(s, a + 1, Min(b, Len(s)))

\* A position of a text that gives no character, and the text without
\* such positions.
Gone == ""
Kept(m) == SelectSeq(m, LAMBDA c : c # Gone)

\* bytes.decode("utf-8", errors="ignore") on one chunk: a lead byte with
\* its continuation byte is the character; a lead byte without it (the
\* end of the chunk included), a continuation byte by itself and an
\* invalid byte are dropped.
decode(bs) ==
  Kept([k \in 1..Len(bs) |->
          IF bs[k] = LeadByte
          THEN IF k < Len(bs) /\ bs[k + 1] = ContByte THEN TwoByteChar ELSE Gone
          ELSE IF bs[k] = ContByte \/ bs[k] \in InvalidBytes THEN Gone
          ELSE bs[k]])

\* Text mode with newline=None (universal newlines): "\r\n" and a "\r" by
\* itself reach the reader as "\n".
Newlines(t) ==
  Kept([k \in 1..Len(t) |->
          IF t[k] = "\r" THEN "\n"
          ELSE IF t[k] = "\n" /\ k > 1 /\ t[k - 1] = "\r" THEN Gone
          ELSE t[k]])

\* while "&&" in buffer and "!!" in buffer
HasFrame(b) == Contains(b, START_MARKER) /\ Contains(b, END_MARKER)

\* A scan that takes the frame from the head of the buffer.
FrameStartZero(b) == 0

\* A scan that starts the frame at the start marker nearest before the
\* first end marker.
FrameStartNearest(b) ==
  LET e == IndexOf(b, END_MARKER)
      hits == { k \in 0..(e - 2) : SubSeq(b, k + 1, k + 2) = START_MARKER }
  IN  IF hits = {} THEN IndexOf(b, START_MARKER)
      ELSE CHOOSE k \in hits : \A j \in hits : j <= k

\* start = buffer.index("&&")
FrameStart(b) == IndexOf(b, START_MARKER)

\* A scan that ends the frame before the end marker: the marker stays in
\* the buffer.
FrameEndBeforeMarker(b) == IndexOf(b, END_MARKER)

\* end = buffer.index("!!") + 2
FrameEnd(b) == IndexOf(b, END_MARKER) + 2

\* A read that overwrites the buffer instead of appending to it.
AccumulateDrop(b, chunk) == chunk

\* buffer += chunk
Accumulate(b, chunk) == b \o chunk

\* One buffer for every instance (a class or module level buffer).
OwnerShared(i) == 1

\* The generator frame each stream() call owns: buffer is a local variable.
Owner(i) == i

\* The scan of a whole text handed over as one chunk: the frames the inner
\* loop yields one after the other.
RECURSIVE ScanAll(_)
ScanAll(b) ==
  IF HasFrame(b)
  THEN <<Slice(b, FrameStart(b), FrameEnd(b))>> \o ScanAll(Slice(b, FrameEnd(b), Len(b)))
  ELSE <<>>

(* ----------------------------- the state ------------------------------ *)

Kinds == {"tcp", "rtcp", "file", "serial"}
SocketKinds == {"tcp", "rtcp"}

Received(i) == SubSeq(text[i], 1, pos[i])
Rest(i) == SubSeq(text[i], pos[i] + 1, Len(text[i]))

\* __init__: no socket, no file (self.socket = None, self._file = None);
\* SerialReader opens its port in the constructor.
InitRes(k) == IF k = "serial" THEN "open" ELSE "none"

\* The file system a command runs in: every absolute path that exists, as
\* the names from the root down, with what is there, a directory or the
\* bytes of a file.  The working directory is /w.
CWD == << <<"w">> >>
Dir == [dir |-> TRUE, content |-> <<>>]
FileOf(bs) == [dir |-> FALSE, content |-> bs]

\* The working directory holds nothing.
NoFile == (<<>> :> Dir) @@ (CWD :> Dir)

\* No JSON output.
NoJson ==
  [layout |-> "none", frames |-> 0, data |-> <<>>, data_points |-> <<>>,
   errors |-> <<>>]

\* The decode command has not run.
NoResult ==
  [status |-> "none", frames |-> 0, results |-> <<>>, data_points |-> <<>>,
   errors |-> <<>>, conversion_errors |-> <<>>, converted_count |-> 0,
   json |-> NoJson]

\* The convert command has not run.
NoConvertResult ==
  [status |-> "none", message |-> "none", called |-> FALSE,
   result |-> [absent |-> TRUE, value |-> 0],
   factor |-> [absent |-> TRUE, n |-> 0, d |-> 1], formula |-> "none"]

NoConvert ==
  /\ creq = [value |-> 0, from_unit |-> "", to_unit |-> "",
             show_formula |-> FALSE, list_units |-> FALSE]
  /\ cres = NoConvertResult

\* The stream command is not running.
NoStream ==
  [pc |-> "none", source |-> "none", max_frames |-> 0, metric |-> FALSE,
   output |-> FALSE, frame_count |-> 0, all_results |-> <<>>, seen |-> 0,
   displayed |-> 0, warnings |-> 0, closes |-> 0, saved |-> 0,
   interrupted |-> FALSE, failed |-> FALSE, abort |-> "none", status |-> "none"]

\* No command is running.
NoCommand ==
  /\ cmd = [data |-> <<>>, metric |-> FALSE, strict |-> FALSE,
            convert_to_metric |-> FALSE, convert_to_fps |-> FALSE,
            format |-> "table", fs |-> NoFile, to_dict |-> TRUE,
            module |-> "witskit.cli"]
  /\ out = NoResult
  /\ NoConvert
  /\ sc = NoStream

Fresh ==
  /\ pos = [i \in Inst |-> 0]
  /\ prev = [i \in Inst |-> 0]
  /\ buffer = [i \in Inst |-> <<>>]
  /\ yielded = [i \in Inst |-> <<>>]
  /\ exc = [i \in Inst |-> "none"]

\* One transport; the second instance does not exist.
Init ==
  /\ \E k \in Kinds, t \in Texts :
       /\ kind = [i \in Inst |-> IF i = 1 THEN k ELSE "off"]
       /\ text = [i \in Inst |-> IF i = 1 THEN t ELSE <<>>]
       /\ res = [i \in Inst |-> IF i = 1 THEN InitRes(k) ELSE "none"]
  /\ pc = [i \in Inst |-> IF i = 1 THEN "init" ELSE "off"]
  /\ Fresh
  /\ NoCommand

\* Two transports, each with its own input.
InitPair ==
  /\ kind \in [Inst -> Kinds]
  /\ text \in [Inst -> PairTexts]
  /\ pc = [i \in Inst |-> "init"]
  /\ res = [i \in Inst |-> InitRes(kind[i])]
  /\ Fresh
  /\ NoCommand

(* ---------------------------- the actions ----------------------------- *)

\* The inner loop's test on buffer b of instance i: yield the first frame
\* and suspend, or go back to the read.
Scan(i, b) ==
  /\ buffer' = [buffer EXCEPT ![Owner(i)] = b]
  /\ IF HasFrame(b)
     THEN /\ yielded' = [yielded EXCEPT ![i] = Append(@, Slice(b, FrameStart(b), FrameEnd(b)))]
          /\ pc' = [pc EXCEPT ![i] = "yield"]
     ELSE /\ yielded' = yielded
          /\ pc' = [pc EXCEPT ![i] = "read"]

\* A chunk of n bytes arrives and is decoded by itself: buffer += chunk,
\* then the inner loop.
Take(i, n) ==
  /\ pos' = [pos EXCEPT ![i] = @ + n]
  /\ prev' = [prev EXCEPT ![i] = pos[i]]
  /\ Scan(i, Accumulate(buffer[Owner(i)], decode(SubSeq(Rest(i), 1, n))))

\* n bytes arrive and nothing is done with them.
Skip(i, n) ==
  /\ pos' = [pos EXCEPT ![i] = @ + n]
  /\ prev' = [prev EXCEPT ![i] = pos[i]]
  /\ UNCHANGED <<buffer, yielded>>

\* The generator ends: normally (e = "none") or with e reaching the caller.
Finish(i, e) ==
  /\ pc' = [pc EXCEPT ![i] = "done"]
  /\ exc' = [exc EXCEPT ![i] = e]

\* First pull: the code before the loop (socket + connect [+ send], open).
Start(i) ==
  /\ pc[i] = "init"
  /\ pc' = [pc EXCEPT ![i] = "read"]
  /\ res' = [res EXCEPT ![i] = IF kind[i] = "serial" THEN @ ELSE "open"]
  /\ buffer' = [buffer EXCEPT ![Owner(i)] = <<>>]
  /\ UNCHANGED <<kind, text, pos, prev, yielded, exc>>
  /\ UNCHANGED dvars

\* First pull, failing: connect() is refused after self.socket was set;
\* open() fails before self._file is set.  Both are outside any try.
StartFail(i) ==
  /\ pc[i] = "init"
  /\ kind[i] \in SocketKinds \cup {"file"}
  /\ res' = [res EXCEPT ![i] = IF kind[i] = "file" THEN @ ELSE "open"]
  /\ Finish(i, "OSError")
  /\ UNCHANGED <<kind, text, pos, prev, buffer, yielded>>
  /\ UNCHANGED dvars

\* recv returns data: the chunk is decoded; a chunk that decodes to the
\* empty string ends the stream as the closed connection does (if not
\* chunk: break).
Recv(i) ==
  /\ pc[i] = "read" /\ kind[i] \in SocketKinds /\ res[i] = "open"
  /\ \E n \in 1..Min(Len(Rest(i)), RecvSize) :
       IF decode(SubSeq(Rest(i), 1, n)) = <<>>
       THEN Skip(i, n) /\ Finish(i, "none")
       ELSE Take(i, n) /\ exc' = exc
  /\ UNCHANGED <<kind, text, res>>
  /\ UNCHANGED dvars

\* recv returns b"": if not chunk: break.
RecvEof(i) ==
  /\ pc[i] = "read" /\ kind[i] \in SocketKinds /\ res[i] = "open"
  /\ pos[i] = Len(text[i])
  /\ Finish(i, "none")
  /\ UNCHANGED <<kind, text, pos, prev, buffer, yielded, res>>
  /\ UNCHANGED dvars

\* recv raises ConnectionResetError: except ConnectionResetError: break.
RecvReset(i) ==
  /\ pc[i] = "read" /\ kind[i] \in SocketKinds /\ res[i] = "open"
  /\ Finish(i, "none")
  /\ UNCHANGED <<kind, text, pos, prev, buffer, yielded, res>>
  /\ UNCHANGED dvars

\* recv raises another Exception: except Exception: print, break.
RecvError(i) ==
  /\ pc[i] = "read" /\ kind[i] \in SocketKinds /\ res[i] = "open"
  /\ Finish(i, "none")
  /\ UNCHANGED <<kind, text, pos, prev, buffer, yielded, res>>
  /\ UNCHANGED dvars

\* self.socket is None after close(): self.socket.recv raises
\* AttributeError, which except Exception catches.
RecvClosed(i) ==
  /\ pc[i] = "read" /\ kind[i] \in SocketKinds /\ res[i] = "none"
  /\ Finish(i, "none")
  /\ UNCHANGED <<kind, text, pos, prev, buffer, yielded, res>>
  /\ UNCHANGED dvars

\* The bytes of the next line of the file r: through the first line end,
\* which is "\n", "\r", or "\r" and the "\n" that follows it in the
\* decoded text (bytes the decoder drops between the two do not part
\* them); the rest of the file when it holds no line end.
LineLen(r) ==
  LET ends == { n \in 1..Len(r) : r[n] \in {"\n", "\r"} }
      first == CHOOSE n \in ends : \A m \in ends : n <= m
      after == decode(SubSeq(r, first + 1, Len(r)))
      lfs == { n \in (first + 1)..Len(r) : r[n] = "\n" }
  IN  IF ends = {} THEN Len(r)
      ELSE IF r[first] = "\r" /\ after # <<>> /\ after[1] = "\n"
      THEN CHOOSE n \in lfs : \A m \in lfs : n <= m
      ELSE first

\* for line in file: the next line.  The file is opened in text mode with
\* encoding="utf-8", errors="ignore": it is decoded as a whole (a line ends
\* at a line end byte, so the lines are the decoded lines of bytes) and
\* every line end is handed over as "\n".
ReadLine(i) ==
  /\ pc[i] = "read" /\ kind[i] = "file" /\ res[i] = "open"
  /\ decode(Rest(i)) # <<>>
  /\ \E n \in {LineLen(Rest(i))} :
       /\ pos' = [pos EXCEPT ![i] = @ + n]
       /\ prev' = [prev EXCEPT ![i] = pos[i]]
       /\ Scan(i, Accumulate(buffer[Owner(i)], Newlines(decode(SubSeq(Rest(i), 1, n)))))
  /\ UNCHANGED <<kind, text, res, exc>>
  /\ UNCHANGED dvars

\* for line in file: the file is exhausted; the with block closes the file,
\* self._file still refers to it.
FileEof(i) ==
  /\ pc[i] = "read" /\ kind[i] = "file" /\ res[i] = "open"
  /\ decode(Rest(i)) = <<>>
  /\ pos' = [pos EXCEPT ![i] = Len(text[i])]
  /\ res' = [res EXCEPT ![i] = "closedref"]
  /\ Finish(i, "none")
  /\ UNCHANGED <<kind, text, prev, buffer, yielded>>
  /\ UNCHANGED dvars

\* for line in file, after close() closed the file: next(file) raises
\* ValueError (I/O operation on closed file); nothing catches it.
ReadClosedFile(i) ==
  /\ pc[i] = "read" /\ kind[i] = "file" /\ res[i] = "none"
  /\ Finish(i, "ValueError")
  /\ UNCHANGED <<kind, text, pos, prev, buffer, yielded, res>>
  /\ UNCHANGED dvars

\* A serial read with the TCP reader's "if not chunk: break".
SerialReadBreaks(i) ==
  /\ pc[i] = "read" /\ kind[i] = "serial" /\ res[i] = "open"
  /\ \E n \in 0..Min(Len(Rest(i)), RecvSize) :
       IF decode(SubSeq(Rest(i), 1, n)) = <<>>
       THEN Skip(i, n) /\ Finish(i, "none")
       ELSE Take(i, n) /\ exc' = exc
  /\ UNCHANGED <<kind, text, res>>
  /\ UNCHANGED dvars

\* serial.read(1024) with timeout=1: whatever has arrived, possibly
\* nothing; the chunk is decoded and appended, empty or not.
SerialRead(i) ==
  /\ pc[i] = "read" /\ kind[i] = "serial" /\ res[i] = "open"
  /\ \E n \in 0..Min(Len(Rest(i)), RecvSize) : Take(i, n)
  /\ UNCHANGED <<kind, text, res, exc>>
  /\ UNCHANGED dvars

\* serial.read on a closed port raises; nothing catches it.
SerialReadClosed(i) ==
  /\ pc[i] = "read" /\ kind[i] = "serial" /\ res[i] = "closed"
  /\ Finish(i, "SerialException")
  /\ UNCHANGED <<kind, text, pos, prev, buffer, yielded, res>>
  /\ UNCHANGED dvars

\* An inner "if" in place of the inner "while": after a yield the buffer is
\* cut and the next chunk is read, whatever the buffer still holds.
ResumeOnce(i) ==
  /\ pc[i] = "yield"
  /\ buffer' = [buffer EXCEPT ![Owner(i)] = Slice(@, FrameEnd(@), Len(@))]
  /\ pc' = [pc EXCEPT ![i] = "read"]
  /\ UNCHANGED <<kind, text, pos, prev, yielded, res, exc>>
  /\ UNCHANGED dvars

\* The caller pulls again: buffer = buffer[end:], then the inner loop's test.
Resume(i) ==
  /\ pc[i] = "yield"
  /\ Scan(i, Slice(buffer[Owner(i)], FrameEnd(buffer[Owner(i)]), Len(buffer[Owner(i)])))
  /\ UNCHANGED <<kind, text, pos, prev, res, exc>>
  /\ UNCHANGED dvars

\* close() without the "if self.socket:" guard: None.close() raises.
CloseOfUnguarded(k, r) ==
  IF k = "serial"
  THEN [res |-> "closed", exc |-> "none"]
  ELSE IF r # "none" THEN [res |-> "none", exc |-> "none"]
                     ELSE [res |-> r, exc |-> "AttributeError"]

\* close(): what it leaves of the resource, and the exception it raises.
CloseOf(k, r) ==
  IF k = "serial"
  THEN [res |-> "closed", exc |-> "none"]
  ELSE IF r # "none" THEN [res |-> "none", exc |-> "none"]
                     ELSE [res |-> r, exc |-> "none"]

\* The caller calls close() while it holds control.
Close(i) ==
  /\ pc[i] \in {"init", "yield", "done"}
  /\ res' = [res EXCEPT ![i] = CloseOf(kind[i], @).res]
  /\ exc' = [exc EXCEPT ![i] = IF CloseOf(kind[i], res[i]).exc = "none"
                                THEN @ ELSE CloseOf(kind[i], res[i]).exc]
  /\ UNCHANGED <<kind, text, pos, prev, buffer, yielded, pc>>
  /\ UNCHANGED dvars

Next ==
  \E i \in Inst :
    \/ Start(i)
    \/ StartFail(i)
    \/ Recv(i)
    \/ RecvEof(i)
    \/ RecvReset(i)
    \/ RecvError(i)
    \/ RecvClosed(i)
    \/ ReadLine(i)
    \/ FileEof(i)
    \/ ReadClosedFile(i)
    \/ SerialRead(i)
    \/ SerialReadClosed(i)
    \/ Resume(i)
    \/ Close(i)

(* ------------------------- the decode command ------------------------- *)

\* Longest frame of the decode specification, in lines.
MaxLines == 3

\* The frames of t as the frame extractor is specified: from the next start
\* marker through the first end marker that follows it, repeatedly.
RECURSIVE CompleteFrames(_)
CompleteFrames(t) ==
  IF ~Contains(t, START_MARKER) THEN <<>>
  ELSE LET s == IndexOf(t, START_MARKER)
           e == IndexOf(Slice(t, s + 2, Len(t)), END_MARKER)
       IN  IF e < 0 THEN <<>>
           ELSE <<Slice(t, s, s + e + 4)>> \o CompleteFrames(Slice(t, s + e + 4, Len(t)))

NL == <<"\n">>

\* The symbol catalog: code -> declared type, metric unit and field unit (a
\* unit is named as WITSUnits names it).  The units of a symbol are of one
\* category, but for 0121: nothing in the catalog's contract ties the two.
\* The declared types are Float (F), Integer (I) and String (A).
Catalog ==
  ( <<"0", "1", "0", "6">> :> [type |-> "I", metric |-> "UNITLESS", fps |-> "UNITLESS",
                                name |-> "ACTC", description |-> "Activity Code"] ) @@
  ( <<"0", "1", "0", "8">> :> [type |-> "F", metric |-> "METERS", fps |-> "FEET",
                                name |-> "DBTM", description |-> "Depth Bit (meas)"] ) @@
  ( <<"0", "1", "1", "3">> :> [type |-> "F", metric |-> "MHR", fps |-> "FHR",
                                name |-> "ROPA", description |-> "Rate of Penetration (avg)"] ) @@
  ( <<"0", "1", "2", "1">> :> [type |-> "F", metric |-> "KPA", fps |-> "FEET",
                                name |-> "SPPA", description |-> "Standpipe Pressure (avg)"] ) @@
  ( <<"0", "1", "0", "1">> :> [type |-> "A", metric |-> "UNITLESS", fps |-> "UNITLESS",
                                name |-> "WELLID", description |-> "Well Identifier"] )

Digits == {"0", "1", "2", "3", "4", "5", "6", "7", "8", "9"}

\* A decimal number: optional sign, digits, at most one decimal point.
IsDecimal(raw) ==
  LET body == IF raw # <<>> /\ Head(raw) \in {"+", "-"} THEN Tail(raw) ELSE raw
  IN  /\ \E k \in 1..Len(body) : body[k] \in Digits
      /\ \A k \in 1..Len(body) : body[k] \in Digits \cup {"."}
      /\ Cardinality({ k \in 1..Len(body) : body[k] = "." }) <= 1

\* A whole number: optional sign, digits.
IsWhole(raw) ==
  LET body == IF raw # <<>> /\ Head(raw) \in {"+", "-"} THEN Tail(raw) ELSE raw
  IN  body # <<>> /\ \A k \in 1..Len(body) : body[k] \in Digits

\* raw parses as declared type t: a whole number for Integer, a decimal
\* number for Float; every text for the other types.
Parses(t, raw) == IF t = "I" THEN IsWhole(raw) ELSE IF t = "F" THEN IsDecimal(raw) ELSE TRUE

DigitVal ==
  ("0" :> 0) @@ ("1" :> 1) @@ ("2" :> 2) @@ ("3" :> 3) @@ ("4" :> 4) @@
  ("5" :> 5) @@ ("6" :> 6) @@ ("7" :> 7) @@ ("8" :> 8) @@ ("9" :> 9)

RECURSIVE DigitsVal(_)
DigitsVal(ds) ==
  IF ds = <<>> THEN 0 ELSE DigitsVal(SubSeq(ds, 1, Len(ds) - 1)) * 10 + DigitVal[ds[Len(ds)]]

\* The value of a decimal number, in hundredths (further digits dropped).
ParseDecimal(raw) ==
  LET neg == raw # <<>> /\ Head(raw) = "-"
      body == IF raw # <<>> /\ Head(raw) \in {"+", "-"} THEN Tail(raw) ELSE raw
      dot == IndexOf(body, <<".">>)
      whole == IF dot < 0 THEN body ELSE Slice(body, 0, dot)
      frac == IF dot < 0 THEN <<>> ELSE Slice(body, dot + 1, dot + 3)
      cents == IF Len(frac) = 1 THEN DigitsVal(frac) * 10 ELSE DigitsVal(frac)
      v == DigitsVal(whole) * 100 + cents
  IN  IF neg THEN 0 - v ELSE v

\* The lines of t: the text between line ends.
RECURSIVE SplitLines(_)
SplitLines(t) ==
  IF ~Contains(t, NL) THEN <<t>>
  ELSE <<Slice(t, 0, IndexOf(t, NL))>> \o SplitLines(Slice(t, IndexOf(t, NL) + 1, Len(t)))

\* The non-empty lines between the markers of frame text t.
FrameLines(t) == SelectSeq(SplitLines(SubSeq(t, 3, Len(t) - 2)), LAMBDA l : l # <<>>)

\* The data point of a line with a code of the catalog: the value coerced
\* as the symbol declares (a number is kept in hundredths), absent when
\* the raw text does not parse; the unit of the requested system.
PointOf(code, raw, metric) ==
  LET sym == Catalog[code]
  IN  [symbol_code |-> code, symbol_name |-> sym.name,
       symbol_description |-> sym.description, raw_value |-> raw,
       parsed_value |->
         IF ~Parses(sym.type, raw) THEN [kind |-> "absent", num |-> 0, str |-> <<>>]
         ELSE IF sym.type \in {"F", "I"}
         THEN [kind |-> "number", num |-> ParseDecimal(raw), str |-> <<>>]
         ELSE [kind |-> "text", num |-> 0, str |-> raw],
       unit |-> IF metric THEN sym.metric ELSE sym.fps]

\* A line decoder that passes over an unknown code without a word when it
\* is not strict.
DecodeLineLenientSilent(line, metric, strict) ==
  LET code == Slice(line, 0, 4)
      raw == Slice(line, 4, Len(line))
  IN  IF code \notin DOMAIN Catalog
      THEN IF strict
           THEN [dps |-> <<>>,
                 errors |-> <<[kind |-> "unknown_symbol", at |-> code, level |-> "error"]>>]
           ELSE [dps |-> <<>>, errors |-> <<>>]
      ELSE [dps |-> <<PointOf(code, raw, metric)>>,
            errors |-> IF Parses(Catalog[code].type, raw) THEN <<>>
                       ELSE <<[kind |-> "value", at |-> code, level |-> "error"]>>]

\* One line: the first 4 characters are the code, the rest the raw value.
\* An unknown code is no data point and one error: "unknown symbol code"
\* when strict, the same as a warning-level error when not.  A value that
\* does not parse as the declared type is an error and a data point
\* without parsed value.
DecodeLine(line, metric, strict) ==
  LET code == Slice(line, 0, 4)
      raw == Slice(line, 4, Len(line))
  IN  IF code \notin DOMAIN Catalog
      THEN IF strict
           THEN [dps |-> <<>>,
                 errors |-> <<[kind |-> "unknown_symbol", at |-> code, level |-> "error"]>>]
           ELSE [dps |-> <<>>,
                 errors |-> <<[kind |-> "unknown_symbol", at |-> code, level |-> "warning"]>>]
      ELSE [dps |-> <<PointOf(code, raw, metric)>>,
            errors |-> IF Parses(Catalog[code].type, raw) THEN <<>>
                       ELSE <<[kind |-> "value", at |-> code, level |-> "error"]>>]

\* A line decoder that gives up at the first line with an error.
RECURSIVE DecodeLinesAbort(_, _, _)
DecodeLinesAbort(ls, metric, strict) ==
  IF ls = <<>> THEN [dps |-> <<>>, errors |-> <<>>]
  ELSE LET h == DecodeLine(Head(ls), metric, strict)
           r == DecodeLinesAbort(Tail(ls), metric, strict)
       IN  IF h.errors # <<>> THEN h
           ELSE [dps |-> h.dps \o r.dps, errors |-> h.errors \o r.errors]

\* A line decoder that collects the data points last line first.
RECURSIVE DecodeLinesReversed(_, _, _)
DecodeLinesReversed(ls, metric, strict) ==
  IF ls = <<>> THEN [dps |-> <<>>, errors |-> <<>>]
  ELSE LET h == DecodeLine(Head(ls), metric, strict)
           r == DecodeLinesReversed(Tail(ls), metric, strict)
       IN  [dps |-> r.dps \o h.dps, errors |-> h.errors \o r.errors]

RECURSIVE DecodeLines(_, _, _)
DecodeLines(ls, metric, strict) ==
  IF ls = <<>> THEN [dps |-> <<>>, errors |-> <<>>]
  ELSE LET h == DecodeLine(Head(ls), metric, strict)
           r == DecodeLines(Tail(ls), metric, strict)
       IN  [dps |-> h.dps \o r.dps, errors |-> h.errors \o r.errors]

\* Structural validity: the text begins with "&&" and ends with "!!".
validate_wits_frame(t) ==
  /\ Len(t) >= 4
  /\ SubSeq(t, 1, 2) = START_MARKER
  /\ SubSeq(t, Len(t) - 1, Len(t)) = END_MARKER

\* A decode_frame that does not look for the markers: it takes the text
\* between the first two and the last two characters for the lines.
decode_frame_unchecked(t, metric, strict) ==
  IF t = <<>> THEN [raised |-> TRUE, dps |-> <<>>, errors |-> <<>>]
  ELSE LET r == DecodeLines(FrameLines(t), metric, strict)
       IN  [raised |-> FALSE, dps |-> r.dps, errors |-> r.errors]

\* decode_frame: empty input raises; a frame without its markers is one
\* frame-level error and no data point; else the lines, one by one.
decode_frame(t, metric, strict) ==
  IF t = <<>> THEN [raised |-> TRUE, dps |-> <<>>, errors |-> <<>>]
  ELSE IF ~validate_wits_frame(t)
  THEN [raised |-> FALSE, dps |-> <<>>,
        errors |-> <<[kind |-> "frame", at |-> <<>>, level |-> "error"]>>]
  ELSE LET r == DecodeLines(FrameLines(t), metric, strict)
       IN  [raised |-> FALSE, dps |-> r.dps, errors |-> r.errors]

\* split_multiple_frames: the frame substrings of a complete text.
split_multiple_frames(t) == CompleteFrames(t)

\* A batch decode that gives up after the first frame with an error.
RECURSIVE decode_file_stops_at_error(_, _, _)
decode_file_stops_at_error(t, metric, strict) ==
  LET s == IndexOf(t, START_MARKER)
      e == IndexOf(Slice(t, s + 2, Len(t)), END_MARKER)
      r == decode_frame(Slice(t, s, s + e + 4), metric, strict)
  IN  IF s < 0 \/ e < 0 THEN <<>>
      ELSE IF r.errors # <<>> THEN <<r>>
      ELSE <<r>> \o decode_file_stops_at_error(Slice(t, s + e + 4, Len(t)), metric, strict)

\* decode_file: the frames are taken off the text one after the other, by
\* the marker-scanning rule (from the next start marker through the first
\* end marker after it), and each is decoded by decode_frame on its own.
RECURSIVE decode_file(_, _, _)
decode_file(t, metric, strict) ==
  LET s == IndexOf(t, START_MARKER)
      e == IndexOf(Slice(t, s + 2, Len(t)), END_MARKER)
  IN  IF s < 0 \/ e < 0 THEN <<>>
      ELSE <<decode_frame(Slice(t, s, s + e + 4), metric, strict)>>
             \o decode_file(Slice(t, s + e + 4, Len(t)), metric, strict)

\* Only the last result's list.
ExtendLast(rs, field) == IF rs = <<>> THEN <<>> ELSE rs[Len(rs)][field]

RECURSIVE Extend(_, _)
\* all_data_points.extend(...) / all_errors.extend(...) over the results.
Extend(rs, field) ==
  IF rs = <<>> THEN <<>> ELSE Head(rs)[field] \o Extend(Tail(rs), field)

\* decode_command up to the unit conversions: more than one frame substring
\* -> decode_file and the combined result; else decode_frame on the whole
\* input; any exception -> exit status 1.
decode_command(data, metric, strict) ==
  LET frames == split_multiple_frames(data)
      r == decode_frame(data, metric, strict)
  IN  IF Len(frames) > 1
      THEN [status |-> "ok", frames |-> Len(frames),
            results |-> decode_file(data, metric, strict),
            data_points |-> Extend(decode_file(data, metric, strict), "dps"),
            errors |-> Extend(decode_file(data, metric, strict), "errors")]
      ELSE IF r.raised
      THEN [status |-> "exit1", frames |-> 0, results |-> <<>>,
            data_points |-> <<>>, errors |-> <<>>]
      ELSE [status |-> "ok", frames |-> 1, results |-> <<>>,
            data_points |-> r.dps, errors |-> r.errors]

(* ------------------------- the convert command ------------------------ *)

\* The members of WITSUnits, by name.
Units ==
  {"MHR", "FHR", "KPA", "PSI", "BAR", "LPM", "GPM", "M3PM", "BPM",
   "METERS", "FEET", "MILLIMETERS", "INCHES", "KGM3", "PPG", "DEGC", "DEGF",
   "KDN", "KLB", "KGM", "LBF", "KNM", "KFLB", "M3", "BBL", "UNITLESS"}

\* The category of every unit.
Category ==
  [u \in Units |->
     CASE u \in {"MHR", "FHR"} -> "rate"
       [] u \in {"KPA", "PSI", "BAR"} -> "pressure"
       [] u \in {"LPM", "GPM", "M3PM", "BPM"} -> "flow"
       [] u \in {"METERS", "FEET", "MILLIMETERS", "INCHES"} -> "length"
       [] u \in {"KGM3", "PPG"} -> "density"
       [] u \in {"DEGC", "DEGF"} -> "temperature"
       [] u \in {"KDN", "KLB", "KGM", "LBF"} -> "force"
       [] u \in {"KNM", "KFLB"} -> "torque"
       [] u \in {"M3", "BBL"} -> "volume"
       [] OTHER -> "dimensionless"]

\* One unit expressed in its category's base unit, as the fraction n/d
\* (bases: m/h, kPa, l/min, m, kg/m3, kdaN, kN.m, m3).
ToBase ==
  [u \in Units |->
     CASE u = "FHR" -> [n |-> 381, d |-> 1250]
       [] u = "PSI" -> [n |-> 6895, d |-> 1000]
       [] u = "BAR" -> [n |-> 100, d |-> 1]
       [] u = "GPM" -> [n |-> 757, d |-> 200]
       [] u = "M3PM" -> [n |-> 1000, d |-> 1]
       [] u = "BPM" -> [n |-> 159, d |-> 1]
       [] u = "FEET" -> [n |-> 381, d |-> 1250]
       [] u = "MILLIMETERS" -> [n |-> 1, d |-> 1000]
       [] u = "INCHES" -> [n |-> 127, d |-> 5000]
       [] u = "PPG" -> [n |-> 1198, d |-> 10]
       [] u = "KLB" -> [n |-> 89, d |-> 200]
       [] u = "KGM" -> [n |-> 1, d |-> 1020]
       [] u = "LBF" -> [n |-> 1, d |-> 2248]
       [] u = "KFLB" -> [n |-> 339, d |-> 250]
       [] u = "BBL" -> [n |-> 159, d |-> 1000]
       [] OTHER -> [n |-> 1, d |-> 1]]

get_unit_category(u) == Category[u]

\* The base unit every unit's table entry is relative to: by a linear
\* factor (ToBase), for the temperatures by the affine formula.
BaseUnit ==
  [u \in Units |->
     CASE u = "FHR" -> "MHR"
       [] u \in {"PSI", "BAR"} -> "KPA"
       [] u \in {"GPM", "M3PM", "BPM"} -> "LPM"
       [] u \in {"FEET", "MILLIMETERS", "INCHES"} -> "METERS"
       [] u = "PPG" -> "KGM3"
       [] u = "DEGF" -> "DEGC"
       [] u \in {"KLB", "KGM", "LBF"} -> "KDN"
       [] u = "KFLB" -> "KNM"
       [] u = "BBL" -> "M3"
       [] OTHER -> u]

\* An is_convertible that knows the linear factors only: no temperature is
\* convertible to another.
is_convertible_by_factor_only(a, b) ==
  BaseUnit[a] = BaseUnit[b] /\ (a = b \/ BaseUnit[a] # "DEGC")

\* is_convertible: there is a way from a to b through the table, that is,
\* both entries are relative to the same base unit.
is_convertible(a, b) == BaseUnit[a] = BaseUnit[b]

\* factor: 1 for a unit and itself; absent for temperatures and for units
\* of different categories; else the multiplier n/d from a to b.
get_conversion_factor(a, b) ==
  IF a = b THEN [absent |-> FALSE, n |-> 1, d |-> 1]
  ELSE IF Category[a] = "temperature" \/ ~is_convertible(a, b)
  THEN [absent |-> TRUE, n |-> 0, d |-> 1]
  ELSE [absent |-> FALSE, n |-> ToBase[a].n * ToBase[b].d, d |-> ToBase[a].d * ToBase[b].n]

\* Values are numbers of hundredths; a quotient is cut to whole hundredths.
ViaBase(v, a, b) == (((v * ToBase[a].n) \div ToBase[a].d) * ToBase[b].d) \div ToBase[b].n

Affine(v, a, b) ==
  IF a = "DEGC" /\ b = "DEGF" THEN (v * 9) \div 5 + 3200
  ELSE ((v - 3200) * 5) \div 9

\* A convert that sends every value through the formula, a unit to itself
\* included.
convert_value_no_identity(v, a, b) ==
  IF ~is_convertible(a, b) THEN [raised |-> TRUE, value |-> 0]
  ELSE IF Category[a] = "temperature"
  THEN [raised |-> FALSE, value |-> IF a = "DEGF" /\ b = "DEGF"
                                      THEN Affine(Affine(v, "DEGF", "DEGC"), "DEGC", "DEGF")
                                      ELSE IF a = b
                                      THEN Affine(Affine(v, "DEGC", "DEGF"), "DEGF", "DEGC")
                                      ELSE Affine(v, a, b)]
  ELSE [raised |-> FALSE, value |-> ViaBase(v, a, b)]

\* convert: ConversionError for units of different categories; the value
\* itself for a unit and itself; the affine formulas for temperatures; else
\* the value times the factor.
convert_value(v, a, b) ==
  IF ~is_convertible(a, b) THEN [raised |-> TRUE, value |-> 0]
  ELSE IF a = b THEN [raised |-> FALSE, value |-> v]
  ELSE IF Category[a] = "temperature" THEN [raised |-> FALSE, value |-> Affine(v, a, b)]
  ELSE [raised |-> FALSE, value |-> ViaBase(v, a, b)]

\* str.upper() on the unit names the command is given.
Upper(name) ==
  CASE name = "psi" -> "PSI"
    [] name = "degc" -> "DEGC"
    [] OTHER -> name

\* The unit names given on the command line: every member's name, two in
\* lower case, one that is no member.
UnitArgs == Units \cup {"psi", "degc", "FURLONG"}

\* The values given on the command line, in hundredths.
ConvertValues == {0, 333, 350, 0 - 4000}

\* convert_command with the convertibility test written on the source unit
\* twice.
convert_command_checks_source_only(value, from_unit, to_unit, show_formula, list_units) ==
  LET a == Upper(from_unit)
      b == Upper(to_unit)
      r == convert_value(value, a, b)
      f == get_conversion_factor(a, b)
  IN  IF list_units THEN [NoConvertResult EXCEPT !.status = "ok", !.message = "units"]
      ELSE IF a \notin Units
      THEN [NoConvertResult EXCEPT !.status = "exit1", !.message = "unknown source unit"]
      ELSE IF b \notin Units
      THEN [NoConvertResult EXCEPT !.status = "exit1", !.message = "unknown target unit"]
      ELSE IF ~is_convertible(a, a)
      THEN [NoConvertResult EXCEPT !.status = "exit1", !.message = "not supported"]
      ELSE IF r.raised
      THEN [NoConvertResult EXCEPT !.status = "exit1", !.message = "conversion error",
                                   !.called = TRUE]
      ELSE [status |-> "ok", message |-> get_unit_category(a), called |-> TRUE,
            result |-> [absent |-> FALSE, value |-> r.value],
            factor |-> IF show_formula THEN f ELSE NoConvertResult.factor,
            formula |-> IF ~show_formula \/ f.absent \/ f.n = 0 THEN "none"
                        ELSE IF f.n = f.d THEN "same unit"
                        ELSE "factor"]

\* convert_command that converts first and leaves the refusal to convert.
convert_command_converts_first(value, from_unit, to_unit, show_formula, list_units) ==
  LET a == Upper(from_unit)
      b == Upper(to_unit)
      r == convert_value(value, a, b)
      f == get_conversion_factor(a, b)
  IN  IF list_units THEN [NoConvertResult EXCEPT !.status = "ok", !.message = "units"]
      ELSE IF a \notin Units
      THEN [NoConvertResult EXCEPT !.status = "exit1", !.message = "unknown source unit"]
      ELSE IF b \notin Units
      THEN [NoConvertResult EXCEPT !.status = "exit1", !.message = "unknown target unit"]
      ELSE IF r.raised
      THEN [NoConvertResult EXCEPT !.status = "exit1", !.message = "conversion error",
                                   !.called = TRUE]
      ELSE [status |-> "ok", message |-> get_unit_category(a), called |-> TRUE,
            result |-> [absent |-> FALSE, value |-> r.value],
            factor |-> IF show_formula THEN f ELSE NoConvertResult.factor,
            formula |-> IF ~show_formula \/ f.absent \/ f.n = 0 THEN "none"
                        ELSE IF f.n = f.d THEN "same unit"
                        ELSE "factor"]

\* convert_command: --list-units shows the units and returns; an unknown
\* unit name exits with status 1; so does a pair that is not convertible,
\* before the value is converted; a conversion that raises exits with
\* status 1; else the result, with --formula the factor, and the category.
convert_command(value, from_unit, to_unit, show_formula, list_units) ==
  LET a == Upper(from_unit)
      b == Upper(to_unit)
      r == convert_value(value, a, b)
      f == get_conversion_factor(a, b)
  IN  IF list_units THEN [NoConvertResult EXCEPT !.status = "ok", !.message = "units"]
      ELSE IF a \notin Units
      THEN [NoConvertResult EXCEPT !.status = "exit1", !.message = "unknown source unit"]
      ELSE IF b \notin Units
      THEN [NoConvertResult EXCEPT !.status = "exit1", !.message = "unknown target unit"]
      ELSE IF ~is_convertible(a, b)
      THEN [NoConvertResult EXCEPT !.status = "exit1", !.message = "not supported"]
      ELSE IF r.raised
      THEN [NoConvertResult EXCEPT !.status = "exit1", !.message = "conversion error",
                                   !.called = TRUE]
      ELSE [status |-> "ok", message |-> get_unit_category(a), called |-> TRUE,
            result |-> [absent |-> FALSE, value |-> r.value],
            factor |-> IF show_formula THEN f ELSE NoConvertResult.factor,
            formula |-> IF ~show_formula \/ f.absent \/ f.n = 0 THEN "none"
                        ELSE IF f.n = f.d THEN "same unit"
                        ELSE "factor"]

InitConvert ==
  /\ kind = [i \in Inst |-> "off"]
  /\ text = [i \in Inst |-> <<>>]
  /\ pc = [i \in Inst |-> "off"]
  /\ res = [i \in Inst |-> "none"]
  /\ Fresh
  /\ cmd = [data |-> <<>>, metric |-> FALSE, strict |-> FALSE,
            convert_to_metric |-> FALSE, convert_to_fps |-> FALSE,
            format |-> "table", fs |-> NoFile, to_dict |-> TRUE,
            module |-> "witskit.cli"]
  /\ out = NoResult
  /\ creq \in [value : ConvertValues, from_unit : UnitArgs, to_unit : UnitArgs,
               show_formula : BOOLEAN, list_units : BOOLEAN]
  /\ cres = NoConvertResult
  /\ sc = NoStream

\* witskit convert VALUE FROM TO [--formula] [--list-units]
ConvertCommand ==
  /\ cres.status = "none"
  /\ creq.from_unit \in UnitArgs
  /\ cres' = convert_command(creq.value, creq.from_unit, creq.to_unit,
                             creq.show_formula, creq.list_units)
  /\ UNCHANGED <<cmd, out, creq, sc, tvars>>

NextConvert == ConvertCommand

SpecConvert == InitConvert /\ [][NextConvert]_vars

(* ------------------ the decode command, as a whole -------------------- *)

\* getattr(WITSUnits, dp.unit, None): the member named by the label.
UnitNamed(label) == IF label \in Units THEN label ELSE "None"

\* The post-pass on one data point: the symbol's unit of the requested
\* system is the target; a number in a different, convertible unit is
\* converted and takes the target unit; an exception is a warning.
convert_point(dp, convert_to_metric) ==
  LET symbol == Catalog[dp.symbol_code]
      current_unit == UnitNamed(dp.unit)
      target_unit == IF convert_to_metric THEN symbol.metric ELSE symbol.fps
      r == convert_value(dp.parsed_value.num, current_unit, target_unit)
      same == [dp |-> dp, errors |-> <<>>, converted |-> 0]
  IN  IF dp.symbol_code \notin DOMAIN Catalog THEN same
      ELSE IF current_unit = "None" \/ current_unit = target_unit THEN same
      ELSE IF ~is_convertible(current_unit, target_unit) THEN same
      ELSE IF dp.parsed_value.kind # "number" THEN same
      ELSE IF r.raised
      THEN [dp |-> dp, errors |-> <<[kind |-> "conversion", at |-> dp.symbol_code]>>,
            converted |-> 0]
      ELSE [dp |-> [dp EXCEPT !.parsed_value.num = r.value, !.unit = target_unit],
            errors |-> <<>>, converted |-> 1]

\* for dp in result.data_points: ...
RECURSIVE apply_unit_conversions(_, _)
apply_unit_conversions(dps, convert_to_metric) ==
  IF dps = <<>> THEN [dps |-> <<>>, errors |-> <<>>, converted |-> 0]
  ELSE LET h == convert_point(Head(dps), convert_to_metric)
           r == apply_unit_conversions(Tail(dps), convert_to_metric)
       IN  [dps |-> <<h.dp>> \o r.dps, errors |-> h.errors \o r.errors,
            converted |-> h.converted + r.converted]

\* The post-pass of decode_command over a decoded result r: with a
\* conversion option, the data points of the result are converted in place
\* (the per-frame results of a batch hold the same data point objects).
post_pass(r, convert_to_metric, convert_to_fps) ==
  LET c == apply_unit_conversions(r.data_points, convert_to_metric)
  IN  IF r.status = "exit1" THEN [NoResult EXCEPT !.status = "exit1"]
      ELSE IF ~(convert_to_metric \/ convert_to_fps)
      THEN [status |-> r.status, frames |-> r.frames, results |-> r.results,
            data_points |-> r.data_points, errors |-> r.errors,
            conversion_errors |-> <<>>, converted_count |-> 0, json |-> NoJson]
      ELSE [status |-> r.status, frames |-> r.frames,
            results |-> [n \in 1..Len(r.results) |->
                           [r.results[n] EXCEPT
                              !.dps = apply_unit_conversions(@, convert_to_metric).dps]],
            data_points |-> c.dps, errors |-> r.errors,
            conversion_errors |-> c.errors, converted_count |-> c.converted,
            json |-> NoJson]

\* data.replace('\\n', '\n'): every backslash followed by n becomes a line
\* end, left to right.
Unescape(t) ==
  Kept([k \in 1..Len(t) |->
          IF t[k] = "\\" /\ k < Len(t) /\ t[k + 1] = "n" THEN "\n"
          ELSE IF t[k] = "n" /\ k > 1 /\ t[k - 1] = "\\" THEN Gone
          ELSE t[k]])

\* The longest file name and the longest path the system takes, in bytes
\* (NAME_MAX, PATH_MAX with its end byte).
NameMax == 255
PathMax == 4096

\* os.fsencode: the bytes of a path, two for the two-byte character.
ByteLen(p) == Len(p) + Cardinality({ k \in 1..Len(p) : p[k] = TwoByteChar })

\* The positions of the "/" of a path, in order.
SlashAt(p) == SelectSeq([k \in 1..Len(p) |-> k], LAMBDA k : p[k] = "/")

\* p.split("/"): the components of a path, the empty ones included.
Components(p) ==
  LET at == SlashAt(p)
  IN  [j \in 1..(Len(at) + 1) |->
         SubSeq(p, IF j = 1 THEN 1 ELSE at[j - 1] + 1,
                   IF j = Len(at) + 1 THEN Len(p) ELSE at[j] - 1)]

\* The components a path walk takes a step for: "" and "." stay where
\* they are.
Names(p) == SelectSeq(Components(p), LAMBDA c : c # <<>> /\ c # <<".">>)

\* Where a path starts: the root for an absolute one.
WalkFrom(p) == IF p # <<>> /\ p[1] = "/" THEN <<>> ELSE CWD

\* The parent of a directory, the root being its own.
Parent(at) == IF at = <<>> THEN <<>> ELSE SubSeq(at, 1, Len(at) - 1)

\* One step of the path walk of the system, from at by name: a step from
\* what is no directory fails with ENOTDIR, ".." steps to the parent, a
\* name longer than NAME_MAX fails with ENAMETOOLONG, a name that is not
\* there with ENOENT.
Step(fs, at, name) ==
  IF ~fs[at].dir THEN [err |-> "ENOTDIR", at |-> at]
  ELSE IF name = <<".", ".">> THEN [err |-> "none", at |-> Parent(at)]
  ELSE IF ByteLen(name) > NameMax THEN [err |-> "ENAMETOOLONG", at |-> at]
  ELSE IF Append(at, name) \notin DOMAIN fs THEN [err |-> "ENOENT", at |-> at]
  ELSE [err |-> "none", at |-> Append(at, name)]

\* The steps for names[lo..hi] in order, up to the first that fails (the
\* first half, then the second half from where the first came to).
RECURSIVE WalkPart(_, _, _, _, _)
WalkPart(fs, at, names, lo, hi) ==
  IF lo > hi THEN [err |-> "none", at |-> at]
  ELSE IF lo = hi THEN Step(fs, at, names[lo])
  ELSE LET half == WalkPart(fs, at, names, lo, (lo + hi) \div 2)
       IN  IF half.err # "none" THEN half
           ELSE WalkPart(fs, half.at, names, (lo + hi) \div 2 + 1, hi)

\* The path walk of the system from directory at.
Walk(fs, at, names) == WalkPart(fs, at, names, 1, Len(names))

\* The system resolves path p as it is written (open(p)): a path of
\* PATH_MAX bytes or more fails with ENAMETOOLONG, the empty path with
\* ENOENT; a path that ends in "/" or in a "." component must come to a
\* directory.
Resolve(fs, p) ==
  LET w == Walk(fs, WalkFrom(p), Names(p))
  IN  IF ByteLen(p) >= PathMax THEN [err |-> "ENAMETOOLONG", at |-> <<>>]
      ELSE IF p = <<>> THEN [err |-> "ENOENT", at |-> <<>>]
      ELSE IF w.err # "none" THEN w
      ELSE IF Components(p)[Len(Components(p))] \in {<<>>, <<".">>} /\ ~fs[w.at].dir
      THEN [err |-> "ENOTDIR", at |-> w.at]
      ELSE w

\* The bytes of str(Path(p)): pathlib drops the empty and the "."
\* components, so the "/" at the end too, keeps "//" at the start when
\* there are exactly two, and writes "." for a path without components.
PathLen(p) ==
  LET lead == IF p = <<>> \/ p[1] # "/" THEN 0
              ELSE IF Len(p) >= 2 /\ p[2] = "/" /\ (Len(p) = 2 \/ p[3] # "/") THEN 2
              ELSE 1
      n == Len(Names(p))
      chars == ByteLen(p) - Len(SlashAt(p))
                 - Len(SelectSeq(Components(p), LAMBDA c : c = <<".">>))
  IN  IF n = 0 THEN (IF lead = 0 THEN 1 ELSE lead)
      ELSE lead + chars + (n - 1)

\* Path(p).exists(): os.stat(str(Path(p))); ENOENT and ENOTDIR are False,
\* ENAMETOOLONG is an OSError that exists() does not swallow.
exists(fs, p) ==
  LET w == Walk(fs, WalkFrom(p), Names(p))
  IN  IF PathLen(p) >= PathMax THEN [raised |-> TRUE, value |-> FALSE]
      ELSE [raised |-> w.err = "ENAMETOOLONG", value |-> w.err = "none"]

\* bytes.decode("utf-8") with errors="strict" accepts bs.
Valid(bs) ==
  \A k \in 1..Len(bs) :
    /\ bs[k] = LeadByte => k < Len(bs) /\ bs[k + 1] = ContByte
    /\ bs[k] = ContByte => k > 1 /\ bs[k - 1] = LeadByte
    /\ bs[k] \notin InvalidBytes

\* with open(data, "r") as f: frame_data = f.read().  The path is resolved
\* as written; a directory cannot be opened; bytes that are no UTF-8
\* cannot be read; line ends are read as "\n".
open_read(fs, data) ==
  LET r == Resolve(fs, data)
  IN  IF r.err = "ENOENT"
      THEN [raised |-> TRUE, error |-> "FileNotFoundError", text |-> <<>>]
      ELSE IF r.err = "ENOTDIR"
      THEN [raised |-> TRUE, error |-> "NotADirectoryError", text |-> <<>>]
      ELSE IF r.err = "ENAMETOOLONG"
      THEN [raised |-> TRUE, error |-> "OSError", text |-> <<>>]
      ELSE IF fs[r.at].dir
      THEN [raised |-> TRUE, error |-> "IsADirectoryError", text |-> <<>>]
      ELSE IF ~Valid(fs[r.at].content)
      THEN [raised |-> TRUE, error |-> "UnicodeDecodeError", text |-> <<>>]
      ELSE [raised |-> FALSE, error |-> "none",
            text |-> Newlines(decode(fs[r.at].content))]

\* The frame data of the DATA argument in file system fs.  DATA that
\* Path(data).exists() finds is opened and read in text mode, else DATA is
\* the text, its escaped line ends replaced.  None of the exceptions is
\* caught.
read_data(data, fs) ==
  IF exists(fs, data).raised
  THEN [raised |-> TRUE, error |-> "OSError", text |-> <<>>]
  ELSE IF exists(fs, data).value THEN open_read(fs, data)
  ELSE [raised |-> FALSE, error |-> "none", text |-> Unescape(data)]

\* decode_command on frame data t, from the frame split to the post-pass.
decode_text(t, metric, strict, convert_to_metric, convert_to_fps) ==
  post_pass(decode_command(t, metric, strict), convert_to_metric, convert_to_fps)

\* decode_command up to its output: both conversion options -> exit
\* status 1; the frame data is read (an exception of open is not caught);
\* the decoding; then the post-pass.
decode_run(data, fs, metric, strict, convert_to_metric, convert_to_fps) ==
  IF convert_to_metric /\ convert_to_fps THEN [NoResult EXCEPT !.status = "exit1"]
  ELSE IF read_data(data, fs).raised THEN [NoResult EXCEPT !.status = "raised"]
  ELSE decode_text(read_data(data, fs).text, metric, strict,
                   convert_to_metric, convert_to_fps)

\* The value of one key of "data".
Entry(dp) ==
  [name |-> dp.symbol_name, description |-> dp.symbol_description,
   value |-> dp.parsed_value, raw_value |-> dp.raw_value, unit |-> dp.unit]

HasKey(d, key) == \E i \in 1..Len(d) : d[i].key = key

\* A dict that keeps the first value of a key.
DictSetDefault(d, key, entry) ==
  IF HasKey(d, key) THEN d ELSE Append(d, [key |-> key, entry |-> entry])

\* d[key] = entry on a dict, kept as its items in insertion order: the
\* value of a key already there is replaced in place.
DictSet(d, key, entry) ==
  IF HasKey(d, key)
  THEN [i \in 1..Len(d) |-> IF d[i].key = key THEN [key |-> key, entry |-> entry]
                                               ELSE d[i]]
  ELSE Append(d, [key |-> key, entry |-> entry])

\* { dp.symbol_code: {...} for dp in self.data_points }
RECURSIVE data_dict(_, _)
data_dict(dps, d) ==
  IF dps = <<>> THEN d
  ELSE data_dict(Tail(dps), DictSet(d, Head(dps).symbol_code, Entry(Head(dps))))

\* CombinedResult.to_dict()
to_dict(r) ==
  [layout |-> "combined", frames |-> Len(r.results),
   data |-> data_dict(r.data_points, <<>>), data_points |-> <<>>,
   errors |-> r.errors]

\* DecodedFrame.to_dict(), which CombinedResult.to_dict stands in for: the
\* same dictionary without "frames".
frame_to_dict(r) ==
  [layout |-> "to_dict", frames |-> 0,
   data |-> data_dict(r.data_points, <<>>), data_points |-> <<>>,
   errors |-> r.errors]

\* One item of "data_points": no raw_value.
PointItem(dp) ==
  [symbol_code |-> dp.symbol_code, symbol_name |-> dp.symbol_name,
   parsed_value |-> dp.parsed_value, unit |-> dp.unit,
   description |-> dp.symbol_description]

\* The dictionary written for a result without to_dict: its data points
\* and its errors.
frame_dict(r) ==
  [layout |-> "frame", frames |-> 0, data |-> <<>>,
   data_points |-> [n \in 1..Len(r.data_points) |-> PointItem(r.data_points[n])],
   errors |-> r.errors]

\* Output results: with --format json the dictionary of the result is
\* written: result.to_dict() when the result has it (the combined result
\* of several frames always has), else the literal dictionary.
decode_output(r, format, has_to_dict) ==
  IF r.status # "ok" \/ format # "json" THEN r
  ELSE [r EXCEPT !.json = IF r.frames > 1 THEN to_dict(r)
                          ELSE IF has_to_dict THEN frame_to_dict(r)
                          ELSE frame_dict(r)]

\* The lines decode inputs are made of: a known float code with a good and
\* with a bad value, the float code with units of two categories, a known
\* text code, an unknown code, an empty line.
Lines == { <<"0", "1", "0", "8", "3", ".", "5">>,
           <<"0", "1", "2", "1", "2">>,
           <<"0", "1", "1", "3", "x">>,
           <<"0", "1", "0", "1", "W">>,
           <<"9", "9", "9", "9", "1">>,
           <<>> }

LineSeqs(n) == UNION { [1..k -> Lines] : k \in 0..n }

RECURSIVE JoinLines(_)
JoinLines(ls) == IF ls = <<>> THEN <<>> ELSE Head(ls) \o NL \o JoinLines(Tail(ls))

\* "&&\n<line>\n...\n!!"
FrameOf(ls) == START_MARKER \o NL \o JoinLines(ls) \o END_MARKER

\* Text that belongs to no frame.
Junk == <<"x", "\n">>

\* A second value for the float code of the first line.
Again == <<"0", "1", "0", "8", "7">>

\* One frame; two frames and three frames back to back; lines without
\* markers, without the end marker, without the start marker; one frame
\* with text before it or after it, two frames with text around them; two
\* frames one of which holds the second value of the float code.
DecodeInputs ==
  { FrameOf(ls) : ls \in LineSeqs(MaxLines) }
    \cup { Junk \o FrameOf(a) : a \in LineSeqs(1) }
    \cup { FrameOf(a) \o Junk : a \in LineSeqs(1) }
    \cup { Junk \o FrameOf(a) \o Junk \o FrameOf(b) :
             a \in LineSeqs(1), b \in LineSeqs(1) }
    \cup { FrameOf(a) \o FrameOf(<<Again>> \o b) : a \in LineSeqs(1), b \in LineSeqs(1) }
    \cup { FrameOf(<<Again>> \o b) \o FrameOf(a) : a \in LineSeqs(1), b \in LineSeqs(1) }
    \cup { FrameOf(a) \o NL \o FrameOf(b) : a \in LineSeqs(1), b \in LineSeqs(1) }
    \cup { FrameOf(a) \o FrameOf(b) \o FrameOf(c) :
             a \in LineSeqs(1), b \in LineSeqs(1), c \in LineSeqs(1) }
    \cup { JoinLines(ls) : ls \in LineSeqs(2) }
    \cup { START_MARKER \o NL \o JoinLines(ls) : ls \in LineSeqs(1) }
    \cup { JoinLines(ls) \o END_MARKER : ls \in LineSeqs(1) }

\* "\\n" for every line end of t, as on a command line.
Escape(t) ==
  Flat([k \in 1..Len(t) |-> IF t[k] = "\n" THEN <<"\\", "n">> ELSE <<t[k]>>])

\* The names of a file and of a directory of the working directory, and
\* of a file of that directory.
PathName == <<"f">>
DirName == <<"d">>
InnerName == <<"g">>

\* Every "\n" of t written as "\r\n".
Crlf(t) ==
  Flat([k \in 1..Len(t) |-> IF t[k] = "\n" THEN <<"\r", "\n">> ELSE <<t[k]>>])

\* What such a file holds: nothing, one frame, one frame with escaped line
\* ends, one frame with "\r\n" line ends, a frame with a two-byte
\* character, bytes that are no UTF-8.
FileContents ==
  { <<>> }
    \cup { FrameOf(ls) : ls \in LineSeqs(1) }
    \cup { Escape(FrameOf(ls)) : ls \in LineSeqs(1) }
    \cup { Crlf(FrameOf(ls)) : ls \in LineSeqs(1) }
    \cup { FrameOf(<<<<"0", "1", "0", "1", LeadByte, ContByte>>>>),
           FrameOf(<<<<"0", "1", "0", "1", LeadByte>>>>) }

\* The working directory with file f that holds bs, and with directory d
\* and its file g.
Tree(bs) ==
  NoFile @@ (Append(CWD, PathName) :> FileOf(bs))
         @@ (Append(CWD, DirName) :> Dir)
         @@ (Append(Append(CWD, DirName), InnerName) :> FileOf(FrameOf(<<>>)))

\* Other ways to write the path of file f.
FilePaths ==
  { <<".", "/", "f">>, <<"d", "/", ".", ".", "/", "f">>, <<"/", "w", "/", "f">>,
    <<".", ".", "/", "w", "/", "/", "f">>, <<"d", "/", "g">> }

\* Paths that Path.exists finds and open does not take: the file with "/"
\* or "/." after it, directories, the empty path.
NoFilePaths ==
  { <<"f", "/">>, <<"f", "/", ".">>, <<"d">>, <<"d", "/">>, <<".">>, <<".", ".">>,
    <<"/">>, <<"/", "/">>, <<>> }

\* Paths to nothing: a name that is not there, a step from the file.
NoPaths ==
  { <<"x">>, <<"x", "/", "f">>, <<"f", "/", "f">>, <<"d", "/", "f">>,
    <<"f", "/", ".", ".">> }

\* A frame given on the command line that is longer than a file name may
\* be.
LongLine == <<"0", "1", "0", "8", "3", ".", "5", "\\", "n">>
LongData ==
  <<"&", "&", "\\", "n">>
    \o [k \in 1..(Len(LongLine) * (NameMax \div Len(LongLine) + 1)) |->
          LongLine[((k - 1) % Len(LongLine)) + 1]]
    \o <<"!", "!">>

\* A name of n characters, and the longest name with one character more.
LongName(n) == [k \in 1..n |-> "a"]
TooLong == LongName(NameMax + 1)

\* The too long name after a name that is not there, after the file, after
\* the directory; the longest name that may be; the file with so many "/"
\* after it that the path is too long as written; a path of names that may
\* be, too long as a whole.
LongPaths ==
  { <<"x", "/">> \o TooLong, <<"f", "/">> \o TooLong, <<"d", "/">> \o TooLong,
    LongName(NameMax),
    PathName \o [k \in 1..(PathMax - 1) |-> "/"],
    [k \in 1..(PathMax + NameMax) |-> IF k % (NameMax + 1) = 0 THEN "/" ELSE "a"] }

\* The DATA argument and the file system it is looked up in: the text
\* itself, with real or with escaped line ends, a path of the file, of a
\* directory or of nothing, a long text and long paths.
DecodeArgs ==
  { [data |-> t, fs |-> NoFile] : t \in DecodeInputs }
    \cup { [data |-> Escape(FrameOf(ls)), fs |-> NoFile] : ls \in LineSeqs(2) }
    \cup { [data |-> PathName, fs |-> Tree(t)] : t \in FileContents }
    \cup { [data |-> p, fs |-> Tree(Crlf(FrameOf(<<Again>>)))] :
             p \in FilePaths \cup NoFilePaths \cup NoPaths \cup LongPaths }
    \cup { [data |-> LongData, fs |-> NoFile] }

InitDecode ==
  /\ kind = [i \in Inst |-> "off"]
  /\ text = [i \in Inst |-> <<>>]
  /\ pc = [i \in Inst |-> "off"]
  /\ res = [i \in Inst |-> "none"]
  /\ Fresh
  /\ \E a \in DecodeArgs, m, s, cm, cf, td \in BOOLEAN, f \in {"table", "json"},
        mod \in {"witskit.cli", "cli"} :
       /\ f = "table" => td
       /\ mod = "cli" => (~cm /\ ~cf)
       /\ cmd = [data |-> a.data, fs |-> a.fs, metric |-> m, strict |-> s,
                 convert_to_metric |-> cm, convert_to_fps |-> cf,
                 format |-> f, to_dict |-> td, module |-> mod]
  /\ out = NoResult
  /\ NoConvert
  /\ sc = NoStream

\* The decode command of src/cli.py up to its output: the frame data is
\* read as above, then decode_frame takes the whole text, whatever frames
\* it holds; there are no conversions.
cli_decode_run(data, fs, metric, strict) ==
  IF read_data(data, fs).raised THEN [NoResult EXCEPT !.status = "raised"]
  ELSE \* result = decode_frame(frame_data, ...)
       IF decode_frame(read_data(data, fs).text, metric, strict).raised
       THEN [NoResult EXCEPT !.status = "exit1"]
       ELSE [NoResult EXCEPT
               !.status = "ok", !.frames = 1,
               !.data_points = decode_frame(read_data(data, fs).text, metric, strict).dps,
               !.errors = decode_frame(read_data(data, fs).text, metric, strict).errors]

\* Its output: with --format json result.to_dict() is written; a result
\* without that method raises AttributeError inside the try: exit status 1.
cli_decode_output(r, format, has_to_dict) ==
  IF r.status # "ok" \/ format # "json" THEN r
  ELSE IF has_to_dict THEN [r EXCEPT !.json = frame_to_dict(r)]
  ELSE [NoResult EXCEPT !.status = "exit1"]

\* decode of src/cli.py: DATA [--metric/--fps] [--strict] [--format json]
CliDecodeCommand ==
  /\ out.status = "none"
  /\ cmd.module = "cli"
  /\ out' = cli_decode_output(cli_decode_run(cmd.data, cmd.fs, cmd.metric, cmd.strict),
                              cmd.format, cmd.to_dict)
  /\ UNCHANGED <<cmd, creq, cres, sc, tvars>>

\* witskit decode DATA [--metric] [--strict] [--convert-to-metric]
\* [--convert-to-fps] [--format json]
DecodeCommand ==
  /\ out.status = "none"
  /\ cmd.module = "witskit.cli"
  /\ out' = decode_output(decode_run(cmd.data, cmd.fs, cmd.metric, cmd.strict,
                                     cmd.convert_to_metric, cmd.convert_to_fps),
                          cmd.format, cmd.to_dict)
  /\ UNCHANGED <<cmd, creq, cres, sc, tvars>>

NextDecode ==
  \/ DecodeCommand
  \/ CliDecodeCommand

SpecDecode == InitDecode /\ [][NextDecode]_vars

(* ------------------------- the decoder on its own --------------------- *)

\* Lines with the integer code: a whole number, and a decimal that is none.
IntegerLines == { <<"0", "1", "0", "6", "4">>,
                  <<"0", "1", "0", "6", "3", ".", "5">> }

DecoderLines == Lines \cup IntegerLines

DecoderLineSeqs(n) == UNION { [1..k -> DecoderLines] : k \in 0..n }

\* What decode_frame is given: one frame; lines without markers, without
\* the end marker, without the start marker (the empty text among them).
DecoderTexts ==
  { FrameOf(ls) : ls \in DecoderLineSeqs(MaxLines) }
    \cup { JoinLines(ls) : ls \in DecoderLineSeqs(2) }
    \cup { START_MARKER \o NL \o JoinLines(ls) : ls \in DecoderLineSeqs(1) }
    \cup { JoinLines(ls) \o END_MARKER : ls \in DecoderLineSeqs(1) }

\* What decode_file is given: no frame, one frame, two frames the second
\* of which has up to MaxLines lines, three frames, frames with text
\* around them, a frame after a start marker that is never closed, a frame
\* before one that is not complete.
BatchTexts ==
  { JoinLines(ls) : ls \in DecoderLineSeqs(1) }
    \cup { FrameOf(a) : a \in DecoderLineSeqs(1) }
    \cup { FrameOf(a) \o FrameOf(b) :
             a \in DecoderLineSeqs(1), b \in DecoderLineSeqs(MaxLines) }
    \cup { FrameOf(a) \o FrameOf(b) \o FrameOf(c) :
             a \in DecoderLineSeqs(1), b \in DecoderLineSeqs(1), c \in DecoderLineSeqs(1) }
    \cup { Junk \o FrameOf(a) \o Junk \o FrameOf(b) \o Junk :
             a \in DecoderLineSeqs(1), b \in DecoderLineSeqs(1) }
    \cup { START_MARKER \o NL \o FrameOf(a) \o FrameOf(b) :
             a \in DecoderLineSeqs(1), b \in DecoderLineSeqs(1) }
    \cup { FrameOf(a) \o START_MARKER \o NL \o JoinLines(b) :
             a \in DecoderLineSeqs(1), b \in DecoderLineSeqs(1) }

InitDecoder ==
  /\ kind = [i \in Inst |-> "off"]
  /\ text = [i \in Inst |-> <<>>]
  /\ pc = [i \in Inst |-> "off"]
  /\ res = [i \in Inst |-> "none"]
  /\ Fresh
  /\ \E m, s \in BOOLEAN, entry \in {"decode_frame", "decode_file"} :
     \E t \in IF entry = "decode_frame" THEN DecoderTexts ELSE BatchTexts :
       cmd = [data |-> t, fs |-> NoFile, metric |-> m, strict |-> s,
              convert_to_metric |-> FALSE, convert_to_fps |-> FALSE,
              format |-> "table", to_dict |-> TRUE, module |-> entry]
  /\ out = NoResult
  /\ NoConvert
  /\ sc = NoStream

\* What a call of decode_frame leaves: the one result, or an exception.
frame_call(r) ==
  IF r.raised THEN [NoResult EXCEPT !.status = "raised"]
  ELSE [NoResult EXCEPT !.status = "ok", !.frames = 1, !.results = <<r>>,
                        !.data_points = r.dps, !.errors = r.errors]

\* decode_frame(raw_frame, use_metric_units, strict_mode)
DecodeFrame ==
  /\ out.status = "none"
  /\ cmd.module = "decode_frame"
  /\ out' = frame_call(decode_frame(cmd.data, cmd.metric, cmd.strict))
  /\ UNCHANGED <<cmd, creq, cres, sc, tvars>>

\* decode_file(file_data, use_metric_units, strict_mode)
DecodeFile ==
  /\ out.status = "none"
  /\ cmd.module = "decode_file"
  /\ \E rs \in {decode_file(cmd.data, cmd.metric, cmd.strict)} :
       out' = [NoResult EXCEPT !.status = "ok", !.frames = Len(rs), !.results = rs]
  /\ UNCHANGED <<cmd, creq, cres, sc, tvars>>

NextDecoder ==
  \/ DecodeFrame
  \/ DecodeFile

SpecDecoder == InitDecoder /\ [][NextDecoder]_vars

(* -------------------------- the stream command ----------------------- *)

\* Longest input of the stream specification, in pieces, and the largest
\* --max-frames.
MaxStreamPieces == 3

MaxFramesArg == 2

\* The pieces the stream's input is made of: a frame with an unknown code,
\* a frame with a line of the catalog, an end marker.
StreamPieces ==
  { <<"&", "&", "a", "!", "!">>,
    <<"&", "&", "0", "1", "0", "8", "3", "!", "!">>,
    <<"!", "!">> }

RECURSIVE Flatten(_)
Flatten(ps) == IF ps = <<>> THEN <<>> ELSE Head(ps) \o Flatten(Tail(ps))

StreamTexts(most) ==
  { Flatten(ps) : ps \in UNION { [1..n -> StreamPieces] : n \in 0..most } }

\* The SOURCE argument: a tcp and a file source, and the ones that end the
\* command before it reads (no port, no such file, serial, no scheme).
\* --metric, which only changes the units of the decoded frames, and
\* --output, which only decides whether the results are saved after the
\* loop, are given with the file source, and so is the longest input: a
\* socket hands its input over in chunks of any size, a file in lines.
Sources == {"tcp", "file", "tcp_noport", "file_missing", "serial", "other"}

ReaderKind(source) ==
  IF source = "tcp" THEN "tcp" ELSE IF source = "file" THEN "file" ELSE "off"

InitStream ==
  /\ \E source \in Sources, t \in StreamTexts(MaxStreamPieces), n \in 0..MaxFramesArg,
        m, o \in BOOLEAN :
       /\ ReaderKind(source) = "off" => (t = <<>> /\ n = 0 /\ ~m /\ ~o)
       /\ (m \/ o) => source = "file"
       /\ source = "tcp" => t \in StreamTexts(MaxStreamPieces - 1)
       /\ kind = [i \in Inst |-> IF i = 1 THEN ReaderKind(source) ELSE "off"]
       /\ text = [i \in Inst |-> IF i = 1 THEN t ELSE <<>>]
       /\ pc = [i \in Inst |-> IF i = 1 /\ ReaderKind(source) # "off" THEN "init" ELSE "off"]
       /\ sc = [NoStream EXCEPT !.pc = "setup", !.source = source, !.max_frames = n,
                                !.metric = m, !.output = o]
  /\ res = [i \in Inst |-> "none"]
  /\ Fresh
  /\ cmd = [data |-> <<>>, metric |-> FALSE, strict |-> FALSE,
            convert_to_metric |-> FALSE, convert_to_fps |-> FALSE,
            format |-> "table", fs |-> NoFile, to_dict |-> TRUE,
            module |-> "witskit.cli"]
  /\ out = NoResult
  /\ NoConvert

\* The source is parsed and the reader made; a source without reader
\* raises ValueError or typer.Exit inside the outer try.
StreamSetup ==
  /\ sc.pc = "setup"
  /\ sc' = IF sc.source \in {"tcp", "file"}
           THEN [sc EXCEPT !.pc = "loop"]
           ELSE [sc EXCEPT !.pc = "outer"]
  /\ UNCHANGED <<cmd, out, creq, cres, tvars>>

\* for frame in reader.stream(): the generator runs until it yields or
\* ends.
StreamPull ==
  /\ sc.pc = "loop"
  /\ sc.seen = Len(yielded[1])
  /\ \/ Start(1)
     \/ StartFail(1)
     \/ Recv(1)
     \/ RecvEof(1)
     \/ RecvReset(1)
     \/ RecvError(1)
     \/ ReadLine(1)
     \/ FileEof(1)
     \/ Resume(1)

\* The frame the loop body is at.
FrameAtHand == yielded[1][Len(yielded[1])]

\* Whether decode_frame raises on a frame, in the loop: it does where it is
\* specified to (the empty text); the decoder is not among the sources,
\* and on every other frame both outcomes are taken.
Raises(frame, metric) ==
  IF decode_frame(frame, metric, FALSE).raised THEN {TRUE} ELSE BOOLEAN

\* A loop body that counts a frame before it decodes it: a frame whose
\* decode raises is counted too.
stream_body_counts_failures(s, raised) ==
  IF s.max_frames # 0 /\ s.frame_count >= s.max_frames
  THEN [s EXCEPT !.pc = "finally"]
  ELSE IF raised
  THEN [s EXCEPT !.seen = @ + 1, !.warnings = @ + 1, !.frame_count = @ + 1]
  ELSE [s EXCEPT !.frame_count = @ + 1, !.pc = "counted"]

\* The loop body with the limit tested by > instead of >=.
stream_body_off_by_one(s, raised) ==
  IF s.max_frames # 0 /\ s.frame_count > s.max_frames
  THEN [s EXCEPT !.pc = "finally"]
  ELSE IF raised
  THEN [s EXCEPT !.seen = @ + 1, !.warnings = @ + 1]
  ELSE [s EXCEPT !.frame_count = @ + 1, !.pc = "counted"]

\* The loop body on one frame, through frame_count += 1: break at the
\* limit; a decode that raises is a warning and the body is over; else the
\* frame is counted.
stream_body(s, raised) ==
  IF s.max_frames # 0 /\ s.frame_count >= s.max_frames
  THEN [s EXCEPT !.pc = "finally"]
  ELSE IF raised
  THEN [s EXCEPT !.seen = @ + 1, !.warnings = @ + 1]
  ELSE [s EXCEPT !.frame_count = @ + 1, !.pc = "counted"]

\* The rest of the loop body: all_results.append(result) and the display.
stream_store(s, frame) ==
  [s EXCEPT !.all_results = Append(@, decode_frame(frame, s.metric, FALSE)),
            !.displayed = @ + 1, !.seen = @ + 1, !.pc = "loop"]

\* The for loop is left while the generator is suspended at a yield or
\* running: the generator object is dropped and finalised at once
\* (GeneratorExit at the yield); a file's with block closes the file.
Dropped(k, r) == IF k = "file" /\ r = "open" THEN "closedref" ELSE r

\* The loop body on the frame just yielded, through the count; the break
\* drops the generator.
StreamBody ==
  /\ sc.pc = "loop"
  /\ pc[1] = "yield"
  /\ sc.seen < Len(yielded[1])
  /\ \E raised \in Raises(FrameAtHand, sc.metric) :
     \E s \in {stream_body(sc, raised)} :
       /\ sc' = s
       /\ IF s.pc = "finally"
          THEN /\ pc' = [pc EXCEPT ![1] = "done"]
               /\ res' = [res EXCEPT ![1] = Dropped(kind[1], @)]
          ELSE UNCHANGED <<pc, res>>
  /\ UNCHANGED <<kind, text, pos, prev, buffer, yielded, exc, cmd, out, creq, cres>>

\* The counted frame is stored and displayed.
StreamStore ==
  /\ sc.pc = "counted"
  /\ sc' = stream_store(sc, FrameAtHand)
  /\ UNCHANGED <<cmd, out, creq, cres, tvars>>

\* reader.close() after the loop instead of in a finally clause: an
\* exception of the reader leaves the command without it.
StreamLoopEndNoFinally ==
  /\ sc.pc = "loop"
  /\ pc[1] = "done"
  /\ sc' = IF exc[1] # "none"
           THEN [sc EXCEPT !.pc = "outer", !.failed = TRUE]
           ELSE [sc EXCEPT !.pc = "finally"]
  /\ UNCHANGED <<cmd, out, creq, cres, tvars>>

\* The generator has ended: the loop is over, or the exception the
\* generator raised leaves the loop.
StreamLoopEnd ==
  /\ sc.pc = "loop"
  /\ pc[1] = "done"
  /\ sc' = [sc EXCEPT !.pc = "finally", !.failed = (exc[1] # "none")]
  /\ UNCHANGED <<cmd, out, creq, cres, tvars>>

\* What Ctrl+C leaves of the loop body's work on the frame at hand.  Before
\* the count (at the test of the limit, in decode_frame, in the warning)
\* nothing; after frame_count += 1 the frame is counted and not stored, or
\* stored and its display not done.
interrupted_body(s, frame) ==
  IF s.pc = "counted"
  THEN {s, [s EXCEPT !.all_results = Append(@, decode_frame(frame, s.metric, FALSE))]}
  ELSE {s}

\* What Ctrl+C leaves of the reader's resource.  Before the first read: no
\* socket yet or the socket made before connect; no file yet or, past the
\* open, the file the with block closes.  Later: as when the generator is
\* dropped.
interrupted_res(k, p, r) ==
  IF p # "init" THEN {Dropped(k, r)}
  ELSE IF k \in SocketKinds THEN {r, "open"}
  ELSE {r, "closedref"}

\* What Ctrl+C leaves of the input and of the buffer of the generator,
\* with the exception the generator ends with.  In a read: nothing has
\* arrived yet, or a chunk (a line of the file) was taken from the source
\* and is not in the buffer yet, or it is in the buffer and nothing was
\* yielded for it.  At a yield the generator is suspended while the loop
\* body runs and is dropped; when the body is over the generator may have
\* been resumed: KeyboardInterrupt is then raised in it at the resumption,
\* the buffer not yet cut, or after the cut.
interrupted_read(i) ==
  LET same == [pos |-> pos[i], prev |-> prev[i], buffer |-> buffer[Owner(i)],
               exc |-> "KeyboardInterrupt"]
      taken(n, chunk) ==
        { [pos |-> pos[i] + n, prev |-> pos[i], buffer |-> b, exc |-> "KeyboardInterrupt"] :
            b \in {buffer[Owner(i)], Accumulate(buffer[Owner(i)], chunk)} }
  IN  IF pc[i] = "read" /\ kind[i] \in SocketKinds
      THEN {same} \cup UNION { taken(n, decode(SubSeq(Rest(i), 1, n))) :
                                 n \in 1..Min(Len(Rest(i)), RecvSize) }
      ELSE IF pc[i] = "read" /\ kind[i] = "file" /\ decode(Rest(i)) # <<>>
      THEN {same} \cup taken(LineLen(Rest(i)),
                             Newlines(decode(SubSeq(Rest(i), 1, LineLen(Rest(i))))))
      ELSE IF pc[i] = "read" /\ kind[i] = "file"
      THEN {same, [same EXCEPT !.pos = Len(text[i])]}
      ELSE IF pc[i] = "yield"
      THEN {[same EXCEPT !.exc = exc[i]]} \cup
             IF sc.seen = Len(yielded[i])
             THEN {same, [same EXCEPT !.buffer = Slice(@, FrameEnd(@), Len(@))]}
             ELSE {}
      ELSE {[same EXCEPT !.exc = IF pc[i] = "done" THEN exc[i] ELSE @]}

\* Ctrl+C anywhere in the try of the loop: the handler of line 730 prints
\* and the finally clause follows.  While the generator runs (connect or
\* open, recv or the read of a line, the cut of the buffer)
\* KeyboardInterrupt comes out of the generator, which no handler of it
\* catches.  While the loop body runs the generator is dropped at its
\* yield.  After the generator has ended there is nothing left of it.
StreamInterrupt ==
  /\ sc.pc \in {"loop", "counted"}
  /\ pc[1] \in {"init", "read", "yield"} \/ (pc[1] = "done" /\ exc[1] = "none")
  /\ pc' = [pc EXCEPT ![1] = "done"]
  /\ \E g \in interrupted_read(1) :
       /\ pos' = [pos EXCEPT ![1] = g.pos]
       /\ prev' = [prev EXCEPT ![1] = g.prev]
       /\ buffer' = [buffer EXCEPT ![Owner(1)] = g.buffer]
       /\ exc' = [exc EXCEPT ![1] = g.exc]
  /\ \E r \in (IF pc[1] = "done" THEN {res[1]}
               ELSE interrupted_res(kind[1], pc[1], res[1])) :
       res' = [res EXCEPT ![1] = r]
  /\ \E s \in interrupted_body(sc, IF yielded[1] = <<>> THEN <<>> ELSE FrameAtHand) :
       sc' = [s EXCEPT !.pc = "finally", !.interrupted = TRUE]
  /\ UNCHANGED <<kind, text, yielded, cmd, out, creq, cres>>

\* What a close() that Ctrl+C ends has done to the resource: nothing yet,
\* or closed it and not yet dropped the reference, or all of it.
interrupted_close(k, r) ==
  {r, CloseOf(k, r).res} \cup (IF r = "open" /\ k # "serial" THEN {"closedref"} ELSE {})

\* Ctrl+C that no handler catches: KeyboardInterrupt is no Exception, the
\* handler at the end of the command (line 764) does not catch it and it
\* leaves the command.  During the set-up and its prints, before the try
\* of the loop.  In the handler of line 730: the finally clause runs
\* reader.close() and the exception goes on.  In the finally clause:
\* before reader.close() is called, inside the call, or after it.  In the
\* handler of line 764.  During the saving of the results and the last
\* print: any part of the results may have been written.
StreamAbort ==
  /\ \/ /\ sc.pc = "setup"
        /\ sc' = [sc EXCEPT !.pc = "end", !.abort = "setup", !.status = "KeyboardInterrupt"]
        /\ UNCHANGED res
     \/ /\ sc.pc = "finally" /\ sc.interrupted
        /\ res' = [res EXCEPT ![1] = CloseOf(kind[1], @).res]
        /\ sc' = [sc EXCEPT !.pc = "end", !.abort = "handler", !.closes = @ + 1,
                            !.status = "KeyboardInterrupt"]
     \/ /\ sc.pc = "finally"
        /\ sc' = [sc EXCEPT !.pc = "end", !.abort = "finally", !.status = "KeyboardInterrupt"]
        /\ UNCHANGED res
     \/ /\ sc.pc = "finally"
        /\ \E r \in interrupted_close(kind[1], res[1]) : res' = [res EXCEPT ![1] = r]
        /\ sc' = [sc EXCEPT !.pc = "end", !.abort = "finally", !.closes = @ + 1,
                            !.status = "KeyboardInterrupt"]
     \/ /\ sc.pc = "outer"
        /\ sc' = [sc EXCEPT !.pc = "end", !.abort = "outer", !.status = "KeyboardInterrupt"]
        /\ UNCHANGED res
     \/ /\ sc.pc = "save"
        /\ \E n \in 0..(IF sc.output THEN Len(sc.all_results) ELSE 0) :
             sc' = [sc EXCEPT !.pc = "end", !.abort = "save", !.saved = n,
                              !.status = "KeyboardInterrupt"]
        /\ UNCHANGED res
  /\ UNCHANGED <<kind, text, pos, prev, buffer, yielded, pc, exc, cmd, out, creq, cres>>

\* finally: reader.close(); an exception on its way then goes on to the
\* handler of line 764.
StreamFinally ==
  /\ sc.pc = "finally"
  /\ res' = [res EXCEPT ![1] = CloseOf(kind[1], @).res]
  /\ sc' = IF sc.failed \/ CloseOf(kind[1], res[1]).exc # "none"
           THEN [sc EXCEPT !.pc = "outer", !.closes = @ + 1]
           ELSE [sc EXCEPT !.pc = "save", !.closes = @ + 1]
  /\ UNCHANGED <<kind, text, pos, prev, buffer, yielded, pc, exc, cmd, out, creq, cres>>

\* if output and all_results: the results are written and the command
\* ends; an open(output, "w") that fails goes to the handler of line 764
\* and nothing is saved.
StreamSave ==
  /\ sc.pc = "save"
  /\ \/ sc' = [sc EXCEPT !.pc = "end", !.status = "ok",
                         !.saved = IF sc.output /\ sc.all_results # <<>>
                                   THEN Len(sc.all_results) ELSE 0]
     \/ /\ sc.output /\ sc.all_results # <<>>
        /\ sc' = [sc EXCEPT !.pc = "outer"]
  /\ UNCHANGED <<cmd, out, creq, cres, tvars>>

\* except Exception as e: print_error(...); raise typer.Exit(1)
StreamOuter ==
  /\ sc.pc = "outer"
  /\ sc' = [sc EXCEPT !.pc = "end", !.status = "exit1"]
  /\ UNCHANGED <<cmd, out, creq, cres, tvars>>

NextStream ==
  \/ StreamSetup
  \/ StreamPull
  \/ StreamBody
  \/ StreamStore
  \/ StreamLoopEnd
  \/ StreamInterrupt
  \/ StreamAbort
  \/ StreamFinally
  \/ StreamSave
  \/ StreamOuter

SpecStream == InitStream /\ [][NextStream]_vars

Spec == Init /\ [][Next]_vars

SpecPair == InitPair /\ [][Next]_vars

(* ------------------------------ claims -------------------------------- *)

Live == { i \in Inst : kind[i] # "off" }

\* The text the bytes bs encode, as transport i reads them: a file is read
\* in text mode.
TextOf(i, bs) == IF kind[i] = "file" THEN Newlines(decode(bs)) ELSE decode(bs)

\* The text the bytes of the input encode.
InputText(i) == TextOf(i, text[i])

\* t holds ASCII only: every division into chunks decodes to the same text.
IsAscii(t) ==
  \A k \in 1..Len(t) : t[k] \notin {LeadByte, ContByte, TwoByteChar} \cup InvalidBytes

\* The ASCII characters of t.
AsciiOf(t) ==
  SelectSeq(t, LAMBDA c : c \notin {LeadByte, ContByte, TwoByteChar} \cup InvalidBytes)

\* The whole input has been delivered and every frame it completed has been
\* pulled: the generator waits in a read or has ended.
AllDelivered(i) == pos[i] = Len(text[i]) /\ pc[i] \in {"read", "done"}

\* The text between the markers of f.
Body(f) == SubSeq(f, 3, Len(f) - 2)

\* A frame as C1 words it: starts with "&&", ends with "!!", and neither
\* marker occurs in the text between them.
WellFormed(f) ==
  /\ Len(f) >= 4
  /\ SubSeq(f, 1, 2) = START_MARKER
  /\ SubSeq(f, Len(f) - 1, Len(f)) = END_MARKER
  /\ ~Contains(Body(f), START_MARKER)
  /\ ~Contains(Body(f), END_MARKER)

\* A well-formed frame whose only "!!" is its last two characters: the text
\* between the markers does not end with "!".
WellFormedTight(f) == WellFormed(f) /\ IndexOf(f, END_MARKER) = Len(f) - 2

\* Every way of reading t as a concatenation of frames (tight or as worded).
RECURSIVE Decomps(_, _)
Decomps(t, tight) ==
  IF t = <<>> THEN { <<>> }
  ELSE UNION { { <<SubSeq(t, 1, k)>> \o d : d \in Decomps(SubSeq(t, k + 1, Len(t)), tight) } :
               k \in { k \in 4..Len(t) :
                         IF tight THEN WellFormedTight(SubSeq(t, 1, k))
                                  ELSE WellFormed(SubSeq(t, 1, k)) } }

\* C1 as stated: when the input is a concatenation of N well-formed frames
\* (markers at both ends, no marker in the text between them) and all of it
\* has been delivered, in whatever chunks, the frames yielded are exactly
\* those N frames in input order.
C1_FramesReproduced ==
  \A i \in Live : AllDelivered(i) =>
    \A fs \in Decomps(InputText(i), FALSE) : yielded[i] = fs

\* For ASCII input the frames are reproduced when the enclosed text of
\* each, besides holding no marker, does not end with "!", so that the
\* first "!!" of each frame is its end marker.
Lemma_AsciiTightFramesReproduced ==
  \A i \in Live : (AllDelivered(i) /\ IsAscii(text[i])) =>
    \A fs \in Decomps(InputText(i), TRUE) : yielded[i] = fs

\* Two frames, the second completed by a chunk that began inside it.
Lemma_AsciiTightFramesWitness ==
  \E i \in Live :
    /\ AllDelivered(i) /\ IsAscii(text[i])
    /\ Len(yielded[i]) = 2
    /\ yielded[i] \in Decomps(InputText(i), TRUE)
    /\ Len(text[i]) - prev[i] < Len(yielded[i][2])
    /\ Len(text[i]) - prev[i] > 0


\* f begins with the start marker, ends with the end marker, has >= 4 chars.
IsCompleteFrame(f) ==
  /\ Len(f) >= 4
  /\ SubSeq(f, 1, 2) = START_MARKER
  /\ SubSeq(f, Len(f) - 1, Len(f)) = END_MARKER

IsPrefix(a, b) == Len(a) <= Len(b) /\ SubSeq(b, 1, Len(a)) = a

NonEmpty(fs) == SelectSeq(fs, LAMBDA f : f # <<>>)

\* C2: for any input text, stray and repeated markers included, the frames
\* yielded chunk by chunk are those the scan yields on the whole text taken
\* as one chunk: always a prefix of them, and all of them once the whole
\* text has been delivered.
C2_ChunkIndependent ==
  \A i \in Live :
    /\ IsPrefix(yielded[i], ScanAll(InputText(i)))
    /\ AllDelivered(i) => yielded[i] = ScanAll(InputText(i))

\* For ASCII input the frames yielded do not depend on the chunks (the
\* line ends of a file taken as they are read: "\n").
Lemma_AsciiChunkIndependent ==
  \A i \in Live : IsAscii(text[i]) =>
    /\ IsPrefix(yielded[i], ScanAll(InputText(i)))
    /\ AllDelivered(i) => yielded[i] = ScanAll(InputText(i))

\* Input that is no concatenation of frames, delivered in several chunks,
\* the last of which completed a frame begun in an earlier chunk.
Lemma_AsciiChunkWitness ==
  \E i \in Live :
    /\ AllDelivered(i) /\ IsAscii(text[i])
    /\ Decomps(InputText(i), FALSE) = {}
    /\ yielded[i] # <<>>
    /\ prev[i] > 0
    /\ Len(text[i]) - prev[i] < Len(yielded[i][Len(yielded[i])])

\* C3: every string yielded is a complete frame: it begins with "&&", ends
\* with "!!" and has at least 4 characters.
C3_OnlyCompleteFrames ==
  \A i \in Live : \A k \in 1..Len(yielded[i]) : IsCompleteFrame(yielded[i][k])

\* C4: no yielded frame holds text from before its start marker or from
\* after an end marker: a frame that holds any text begins with "&&" and its
\* first "!!" is its last two characters; and the frame just yielded is the
\* buffer from its first start marker through its first end marker, the
\* text before the one and after the other left out; the buffer holds
\* text as it was received (its ASCII characters are the last ASCII bytes
\* received).
C4_NoGarbageInFrames ==
  \A i \in Live :
    /\ \A k \in 1..Len(yielded[i]) :
         LET f == yielded[i][k]
         IN  f # <<>> => /\ SubSeq(f, 1, 2) = START_MARKER
                         /\ IndexOf(f, END_MARKER) = Len(f) - 2
    /\ pc[i] = "yield" =>
         LET b == buffer[i]
             s == IndexOf(b, START_MARKER)
             e == IndexOf(b, END_MARKER)
             f == yielded[i][Len(yielded[i])]
         IN  /\ s >= 0 /\ e >= 0
             /\ f = (IF e < s THEN <<>> ELSE SubSeq(b, s + 1, e + 2))
             /\ \E a \in {AsciiOf(TextOf(i, Received(i)))} :
                  AsciiOf(b) = SubSeq(a, Len(a) - Len(AsciiOf(b)) + 1, Len(a))

\* A frame was yielded from a buffer with text before its start marker and
\* text after its end marker.
C4_Witness ==
  \E i \in Live :
    /\ pc[i] = "yield"
    /\ yielded[i][Len(yielded[i])] # <<>>
    /\ IndexOf(buffer[i], START_MARKER) > 0
    /\ IndexOf(buffer[i], END_MARKER) + 2 < Len(buffer[i])

\* The source itself ended the stream (end of file, peer closed), the
\* caller did not close the transport.
SourceEnded(i) ==
  pc[i] = "done" /\ pos[i] = Len(text[i]) /\ res[i] \in {"open", "closedref"}

\* b holds a start marker with no end marker after it.
HasPartial(b) ==
  /\ Contains(b, START_MARKER)
  /\ ~Contains(Slice(b, IndexOf(b, START_MARKER) + 2, Len(b)), END_MARKER)

\* C5: when the source ends while the buffer holds an incomplete frame, the
\* stream has ended without raising and has yielded only the complete
\* frames of the input; the incomplete frame is not among them.
C5_PartialFrameDiscarded ==
  \A i \in Live : SourceEnded(i) /\ HasPartial(buffer[i]) =>
    /\ exc[i] = "none"
    /\ yielded[i] = CompleteFrames(InputText(i))

\* C6: a recv that returns no data or raises ends the stream of a TCPReader
\* or RequestingTCPReader without an exception reaching the caller, and the
\* frames yielded are exactly the complete frames of the text received.
C6_RecvFailureEndsStream ==
  [][\A i \in Live : RecvEof(i) \/ RecvReset(i) \/ RecvError(i) =>
       /\ pc'[i] = "done"
       /\ exc'[i] = "none"
       /\ yielded'[i] = CompleteFrames(decode(Received(i)))]_vars

\* C7: close() never raises, leaves no open resource (the socket or file
\* reference is None, the serial port closed), and changes nothing when the
\* resource is already released, whether the stream is not started,
\* suspended at a yield or ended.
C7_CloseIdempotent ==
  [][\A i \in Live : Close(i) =>
       /\ exc'[i] = exc[i]
       /\ res'[i] = (IF kind[i] = "serial" THEN "closed" ELSE "none")
       /\ res[i] \in {"none", "closed"} => UNCHANGED vars]_vars

\* close() was called on a transport suspended at a yield.
C7_Witness ==
  \E i \in Live : pc[i] = "yield" /\ res[i] \in {"none", "closed"}

\* C8: after close() on a partly consumed stream of a TCPReader, a
\* RequestingTCPReader or a FileReader, the next read ends the stream
\* normally: no exception reaches the caller.
C8_ReadAfterCloseEndsStream ==
  [][\A i \in Live :
       kind[i] \in {"tcp", "rtcp", "file"} /\ pc[i] = "read" /\ res[i] = "none"
         /\ pc'[i] # "read"
       => pc'[i] = "done" /\ exc'[i] = "none"]_vars

\* C9: two streams pulled in any interleaving each yield the frames of
\* their own input, as they do alone; each buffer holds text of its own
\* input only.
C9_InstancesIndependent ==
  \A i \in Live :
    /\ IsPrefix(yielded[i], ScanAll(text[i]))
    /\ AllDelivered(i) => yielded[i] = ScanAll(text[i])
    /\ Len(buffer[i]) <= pos[i]
    /\ buffer[i] = SubSeq(Received(i), pos[i] - Len(buffer[i]) + 1, pos[i])

\* One stream is suspended at a yield while the other holds part of its
\* own input in its buffer.
C9_Witness ==
  /\ pc[1] = "yield" /\ prev[1] > 0
  /\ pc[2] = "read" /\ buffer[2] # <<>> /\ pos[2] < Len(text[2])
  /\ text[1] # text[2]

\* The strings yielded are the frames of the received text, with an empty
\* string for every end marker that precedes the next start marker.
Lemma_YieldedButEmpties ==
  \A i \in Live : (AllDelivered(i) /\ IsAscii(text[i])) =>
    NonEmpty(yielded[i]) = CompleteFrames(InputText(i))


\* The decode command (witskit/cli.py) has run, on options it accepts and
\* on frame data it could read.
Ran ==
  /\ cmd.module = "witskit.cli"
  /\ out.status \notin {"none", "raised"}
  /\ ~(cmd.convert_to_metric /\ cmd.convert_to_fps)

\* The frame data the command decodes.
FrameData == read_data(cmd.data, cmd.fs).text

UnknownErrors(es) == SelectSeq(es, LAMBDA e : e.kind = "unknown_symbol")

ValueErrors(es) == SelectSeq(es, LAMBDA e : e.kind = "value")

FrameErrors(es) == SelectSeq(es, LAMBDA e : e.kind = "frame")

CodeOf(line) == Slice(line, 0, 4)

RawOf(line) == Slice(line, 4, Len(line))

\* The frame substrings the command finds in its input.
InputFrames == split_multiple_frames(FrameData)

\* decode_frame, or decode_file, has been called on cmd.data.
Called(entry) == cmd.module = entry /\ out.status # "none"

\* The lines of frame t, those of them with a code of the catalog, and
\* those of these whose value does not parse as the declared type.
Known(lines) == { k \in 1..Len(lines) : CodeOf(lines[k]) \in DOMAIN Catalog }

Failing(lines) ==
  { k \in Known(lines) : ~Parses(Catalog[CodeOf(lines[k])].type, RawOf(lines[k])) }

\* C10: strict and lenient decoding of the same frame give the same data
\* points and as many errors; a line with a code that is not in the catalog
\* gives no data point and exactly one error in both modes, a line with a
\* code of the catalog gives one data point.
C10_StrictEqualsLenient ==
  Called("decode_frame") =>
    \E other \in {decode_frame(cmd.data, cmd.metric, ~cmd.strict)} :
      /\ (out.status = "raised") <=> other.raised
      /\ out.data_points = other.dps
      /\ Len(out.errors) = Len(other.errors)
      /\ validate_wits_frame(cmd.data) =>
           \E lines \in {FrameLines(cmd.data)} :
             /\ out.status = "ok"
             /\ Len(out.data_points) = Cardinality(Known(lines))
             /\ \A k \in 1..Len(out.data_points) :
                  out.data_points[k].symbol_code \in DOMAIN Catalog
             /\ Len(UnknownErrors(out.errors)) = Len(lines) - Cardinality(Known(lines))
             /\ Len(UnknownErrors(other.errors)) = Len(lines) - Cardinality(Known(lines))

\* A lenient decode of a frame with one known and one unknown code has
\* given one data point and one error, the unknown code's.
C10_Witness ==
  /\ Called("decode_frame") /\ out.status = "ok"
  /\ ~cmd.strict
  /\ validate_wits_frame(cmd.data)
  /\ Len(FrameLines(cmd.data)) = 2
  /\ Cardinality(Known(FrameLines(cmd.data))) = 1
  /\ Len(out.data_points) = 1
  /\ Len(out.errors) = 1
  /\ out.errors[1].kind = "unknown_symbol"

\* C11: for a frame with both markers no per-line failure ends the decode:
\* the call returns; there is one data point per non-empty line with a
\* catalog code; a line whose value does not parse as the declared type
\* gives a data point with absent parsed_value and one error; the lines
\* after it give theirs.
C11_PerLineFailuresDoNotAbort ==
  (Called("decode_frame") /\ validate_wits_frame(cmd.data)) =>
    \E lines \in {FrameLines(cmd.data)} :
    \E known \in {Known(lines)}, bad \in {Failing(lines)} :
      /\ out.status = "ok"
      /\ Len(out.data_points) = Cardinality(known)
      /\ \A k \in known :
           \E n \in 1..Len(out.data_points) :
             /\ n = Cardinality({ j \in known : j <= k })
             /\ out.data_points[n].symbol_code = CodeOf(lines[k])
             /\ out.data_points[n].raw_value = RawOf(lines[k])
             /\ (out.data_points[n].parsed_value.kind = "absent") <=> (k \in bad)
      /\ Len(ValueErrors(out.errors)) = Cardinality(bad)
      /\ Len(out.errors) = (Len(lines) - Cardinality(known)) + Cardinality(bad)

\* A frame whose first line is an integer symbol with a value that is no
\* whole number, whose second line is a float symbol with a value that is
\* no number, and whose last line is good has given a data point for each,
\* the first two without parsed value.
C11_Witness ==
  /\ Called("decode_frame") /\ out.status = "ok"
  /\ validate_wits_frame(cmd.data)
  /\ Len(FrameLines(cmd.data)) = 3
  /\ Failing(FrameLines(cmd.data)) = {1, 2}
  /\ Known(FrameLines(cmd.data)) = {1, 2, 3}
  /\ Catalog[CodeOf(FrameLines(cmd.data)[1])].type = "I"
  /\ Catalog[CodeOf(FrameLines(cmd.data)[2])].type = "F"
  /\ Len(out.data_points) = 3
  /\ out.data_points[1].parsed_value.kind = "absent"
  /\ out.data_points[2].parsed_value.kind = "absent"
  /\ out.data_points[3].parsed_value.kind # "absent"
  /\ Len(ValueErrors(out.errors)) = 2

\* The text lacks the start marker or lacks the end marker.
LacksMarker(t) == ~Contains(t, START_MARKER) \/ ~Contains(t, END_MARKER)

InLineOrder(dps, t) ==
  \E known \in {SelectSeq(FrameLines(t), LAMBDA l : CodeOf(l) \in DOMAIN Catalog)} :
    /\ Len(dps) = Len(known)
    /\ \A i \in 1..Len(dps) :
         /\ i <= Len(known)
         /\ dps[i].symbol_code = CodeOf(known[i])
         /\ dps[i].raw_value = RawOf(known[i])

\* C13: the data points of every decoded frame, that of decode_frame and
\* each of decode_file, are in the order of the frame's lines: the i-th
\* data point is that of the i-th line with a catalog code, whatever lines
\* were skipped or failed coercion in between.
C13_DataPointsInLineOrder ==
  /\ (Called("decode_frame") /\ validate_wits_frame(cmd.data)) =>
       /\ Len(out.results) = 1
       /\ InLineOrder(out.results[1].dps, cmd.data)
  /\ Called("decode_file") =>
       \E frames \in {split_multiple_frames(cmd.data)} :
         \A k \in 1..Len(out.results) :
           /\ k <= Len(frames)
           /\ InLineOrder(out.results[k].dps, frames[k])

\* The second frame of a batch had a skipped line between a line whose
\* value failed coercion and a different good line; it has given the two
\* data points, in that order.
C13_Witness ==
  /\ Called("decode_file")
  /\ Len(out.results) = 2
  /\ \E lines \in {FrameLines(split_multiple_frames(cmd.data)[2])} :
       /\ Len(lines) = 3
       /\ Known(lines) = {1, 3}
       /\ Failing(lines) = {1}
       /\ CodeOf(lines[1]) # CodeOf(lines[3])
       /\ Len(out.results[2].dps) = 2
       /\ out.results[2].dps[1].symbol_code = CodeOf(lines[1])
       /\ out.results[2].dps[2].symbol_code = CodeOf(lines[3])

\* C14: batch decoding of text with several frames returns one result per
\* frame substring, in input order, each equal to what decoding that frame
\* alone returns; no frame changes or suppresses the result of a later one.
C14_BatchFramesIndependent ==
  Called("decode_file") =>
    \E frames \in {split_multiple_frames(cmd.data)} :
      /\ out.status = "ok"
      /\ Len(out.results) = Len(frames)
      /\ \A k \in 1..Len(frames) :
           /\ k <= Len(out.results)
           /\ out.results[k] = decode_frame(frames[k], cmd.metric, cmd.strict)

\* Three frames have been decoded; the first two have an error each, the
\* last gives a data point and no error.
C14_Witness ==
  /\ Called("decode_file")
  /\ Len(split_multiple_frames(cmd.data)) = 3
  /\ Len(out.results) = 3
  /\ out.results[1].errors # <<>>
  /\ out.results[2].errors # <<>>
  /\ out.results[3].dps # <<>>
  /\ out.results[3].errors = <<>>

\* Total length of the lists rs[1][field], ..., rs[n][field].
RECURSIVE SumLen(_, _, _)
SumLen(rs, field, n) == IF n = 0 THEN 0 ELSE SumLen(rs, field, n - 1) + Len(rs[n][field])

\* all is the per-frame lists of rs laid end to end, in frame order.
LaidEndToEnd(all, rs, field) ==
  /\ Len(all) = SumLen(rs, field, Len(rs))
  /\ \A k \in 1..Len(rs) : \A j \in 1..Len(rs[k][field]) :
       /\ SumLen(rs, field, k - 1) + j <= Len(all)
       /\ all[SumLen(rs, field, k - 1) + j] = rs[k][field][j]

\* C15: the combined view of a batch decode holds the data points of every
\* frame, in frame order and each frame's in its own order, and the errors
\* likewise; its lengths are the sums of the per-frame lengths.
C15_CombinedViewIsConcatenation ==
  (Ran /\ Len(InputFrames) > 1) =>
    /\ LaidEndToEnd(out.data_points, out.results, "dps")
    /\ LaidEndToEnd(out.errors, out.results, "errors")

\* A combined view over frames of which two gave a data point and two an
\* error.
C15_Witness ==
  /\ Ran /\ out.status = "ok"
  /\ Len(out.results) > 1
  /\ Cardinality({ k \in 1..Len(out.results) : out.results[k].dps # <<>> }) >= 2
  /\ Cardinality({ k \in 1..Len(out.results) : out.results[k].errors # <<>> }) >= 2
  /\ Len(out.data_points) >= 2
  /\ Len(out.errors) >= 2


\* The units the convert command was given.
FromUnit == Upper(creq.from_unit)

ToUnit == Upper(creq.to_unit)

\* The convert command has run on two members of the unit table.
Converted == cres.status # "none" /\ ~creq.list_units /\ FromUnit \in Units /\ ToUnit \in Units

\* The convert command does not refuse the pair (x, y) as not convertible.
Accepts(x, y) ==
  convert_command(creq.value, x, y, FALSE, FALSE).message # "not supported"

\* C16: two units of the unit table are convertible exactly when they are in
\* the same category, whatever pair of the table is_convertible is asked
\* about and as the convert command uses its answer; the relation is
\* reflexive, symmetric and transitive.
C16_ConvertibleIffSameCategory ==
  Converted =>
    /\ \A c \in Units :
         /\ is_convertible(FromUnit, c) <=> (get_unit_category(FromUnit) = get_unit_category(c))
         /\ is_convertible(c, ToUnit) <=> (get_unit_category(c) = get_unit_category(ToUnit))
         /\ is_convertible(c, c)
         /\ is_convertible(FromUnit, c) <=> is_convertible(c, FromUnit)
         /\ (is_convertible(FromUnit, ToUnit) /\ is_convertible(ToUnit, c))
              => is_convertible(FromUnit, c)
    /\ (cres.message # "not supported") <=> (Category[FromUnit] = Category[ToUnit])
    /\ Accepts(FromUnit, FromUnit)
    /\ Accepts(FromUnit, ToUnit) <=> Accepts(ToUnit, FromUnit)
    /\ \A c \in Units :
         (Accepts(FromUnit, ToUnit) /\ Accepts(ToUnit, c)) => Accepts(FromUnit, c)

\* The command has converted between the two temperatures, which no linear
\* factor relates, after is_convertible said yes.
C16_Witness ==
  /\ Converted
  /\ cres.status = "ok"
  /\ FromUnit = "DEGC"
  /\ ToUnit = "DEGF"
  /\ is_convertible(FromUnit, ToUnit)
  /\ get_unit_category(FromUnit) = get_unit_category(ToUnit)
  /\ ~cres.result.absent

\* C17: a conversion between units of different categories ends as an
\* explicit failure, never as a number: convert fails, and the convert
\* command exits with status 1 without having called convert.
C17_MismatchFailsExplicitly ==
  (Converted /\ Category[FromUnit] # Category[ToUnit]) =>
    /\ convert_value(creq.value, FromUnit, ToUnit).raised
    /\ cres.status = "exit1"
    /\ cres.result.absent
    /\ ~cres.called

\* The command has refused to convert a pressure to a length.
C17_Witness ==
  /\ Converted
  /\ FromUnit = "PSI"
  /\ ToUnit = "METERS"
  /\ creq.value # 0
  /\ cres.status = "exit1"
  /\ cres.message = "not supported"

\* C18: converting a value from a unit to the same unit returns the value
\* unchanged, and the factor from a unit to itself is 1, for every unit,
\* the temperature units included.
C18_IdentityConversionExact ==
  (Converted /\ FromUnit = ToUnit) =>
    /\ cres.status = "ok"
    /\ ~cres.result.absent
    /\ cres.result.value = creq.value
    /\ ~get_conversion_factor(FromUnit, FromUnit).absent
    /\ get_conversion_factor(FromUnit, FromUnit).n = get_conversion_factor(FromUnit, FromUnit).d
    /\ creq.show_formula => cres.formula = "same unit"

\* The command has converted a value that the formulas would not give back
\* from degrees Celsius to degrees Celsius.
C18_Witness ==
  /\ Converted
  /\ FromUnit = "DEGC"
  /\ ToUnit = "DEGC"
  /\ creq.value = 333
  /\ creq.show_formula
  /\ cres.status = "ok"
  /\ cres.result.value = 333
  /\ cres.formula = "same unit"


\* The result of the decoding, before the conversion post-pass.
Decoded == decode_command(FrameData, cmd.metric, cmd.strict)

\* The command has run the conversion post-pass.
PostPassRan ==
  /\ Ran
  /\ out.status = "ok"
  /\ cmd.convert_to_metric \/ cmd.convert_to_fps

\* The unit the post-pass converts data point dp to.
TargetUnit(dp) ==
  IF cmd.convert_to_metric THEN Catalog[dp.symbol_code].metric
  ELSE Catalog[dp.symbol_code].fps

\* The conversion of data point dp cannot be done: it holds a number, and
\* its unit and the target unit are of different categories (then, and only
\* then, convert raises).
CannotConvert(dp) ==
  /\ dp.parsed_value.kind = "number"
  /\ UnitNamed(dp.unit) # "None"
  /\ \/ ~is_convertible(UnitNamed(dp.unit), TargetUnit(dp))
     \/ convert_value(dp.parsed_value.num, UnitNamed(dp.unit), TargetUnit(dp)).raised

\* Data point after is data point before, converted as a whole or not at
\* all.
WholeOrNot(before, after) ==
  \/ after = before
  \/ /\ after.unit = TargetUnit(before)
     /\ after.unit # before.unit
     /\ after.parsed_value.num =
          convert_value(before.parsed_value.num, UnitNamed(before.unit), TargetUnit(before)).value
     /\ after.symbol_code = before.symbol_code
     /\ after.raw_value = before.raw_value

\* C19: in the conversion post-pass of the decode command a data point
\* whose conversion cannot be done keeps its parsed value and its unit and
\* gets a warning in the conversion warnings, which are kept apart from the
\* errors of the frame; no data point is left with a converted value and
\* an unconverted unit.
C19_FailedConversionKeptAndWarned ==
  PostPassRan =>
    /\ Len(out.data_points) = Len(Decoded.data_points)
    /\ out.errors = Decoded.errors
    /\ \A k \in 1..Len(Decoded.data_points) :
         /\ k <= Len(out.data_points)
         /\ WholeOrNot(Decoded.data_points[k], out.data_points[k])
         /\ CannotConvert(Decoded.data_points[k]) =>
              /\ out.data_points[k] = Decoded.data_points[k]
              /\ \E n \in 1..Len(out.conversion_errors) :
                   out.conversion_errors[n].at = Decoded.data_points[k].symbol_code

\* What the post-pass does do: every data point is converted as a whole or
\* left as it was, one of different categories is left as it was, the
\* errors of the frame are untouched, and no warning is ever recorded.
Lemma_PostPassWholeOrNot ==
  PostPassRan =>
    /\ Len(out.data_points) = Len(Decoded.data_points)
    /\ out.errors = Decoded.errors
    /\ out.conversion_errors = <<>>
    /\ \A k \in 1..Len(Decoded.data_points) :
         /\ k <= Len(out.data_points)
         /\ WholeOrNot(Decoded.data_points[k], out.data_points[k])
         /\ CannotConvert(Decoded.data_points[k]) =>
              out.data_points[k] = Decoded.data_points[k]

\* The post-pass has converted one data point and left one of different
\* categories as it was.
Lemma_PostPassWitness ==
  /\ PostPassRan
  /\ out.converted_count >= 1
  /\ \E k \in 1..Len(Decoded.data_points) : CannotConvert(Decoded.data_points[k])


\* C20 as stated: with --max-frames N (N >= 1) the stream command never
\* decodes, displays or saves more than N frames: frame_count is the
\* number of stored results and at most N, at every point of the command.
C20_NeverMoreThanMaxFrames ==
  (sc.pc # "none" /\ sc.max_frames >= 1) =>
    /\ sc.frame_count = Len(sc.all_results)
    /\ sc.frame_count <= sc.max_frames
    /\ sc.displayed <= sc.max_frames
    /\ sc.saved <= sc.max_frames

\* C20, amended: with --max-frames N (N >= 1) the stream command never
\* decodes, displays or saves more than N frames: at every point
\* frame_count is at most N, and the number of stored results is
\* frame_count, or frame_count - 1 between the count and the append and,
\* when Ctrl+C comes between the two, for the rest of the command; no more
\* frames are displayed or saved than are stored.
C20_CountWithinLimitAndStoredWithinOne ==
  (sc.pc # "none" /\ sc.max_frames >= 1) =>
    /\ sc.frame_count <= sc.max_frames
    /\ Len(sc.all_results) <= sc.frame_count
    /\ sc.frame_count <= Len(sc.all_results) + 1
    /\ sc.frame_count # Len(sc.all_results) => (sc.pc = "counted" \/ sc.interrupted)
    /\ sc.displayed <= Len(sc.all_results)
    /\ sc.saved <= Len(sc.all_results)

\* With --max-frames 1 a second frame has arrived, the loop has ended, and
\* one frame has been saved.
C20_Witness ==
  /\ sc.max_frames = 1
  /\ Len(NonEmpty(yielded[1])) >= 2
  /\ sc.pc = "end"
  /\ ~sc.interrupted
  /\ sc.frame_count = 1
  /\ sc.saved = 1

\* t holds a start marker, a second start marker after it, and its first
\* end marker after both.
SecondStart(t) ==
  IndexOf(t, START_MARKER) + 2
    + IndexOf(Slice(t, IndexOf(t, START_MARKER) + 2, Len(t)), START_MARKER)

TwoStarts(t) ==
  /\ Contains(t, START_MARKER)
  /\ Contains(Slice(t, IndexOf(t, START_MARKER) + 2, Len(t)), START_MARKER)
  /\ Contains(t, END_MARKER)
  /\ SecondStart(t) + 2 <= IndexOf(t, END_MARKER)

\* C21: when two start markers occur before any end marker, exactly one
\* frame is yielded for them: it runs from the first start marker of the
\* buffer through the first end marker and holds the second start marker;
\* the next pull goes on with the text after that end marker, so that no
\* frame starts at the second start marker.
C21_SecondStartSwallowed ==
  /\ [](\A i \in Live : (pc[i] = "yield" /\ TwoStarts(buffer[i])) =>
         \E f \in { Slice(buffer[i], IndexOf(buffer[i], START_MARKER),
                           IndexOf(buffer[i], END_MARKER) + 2) } :
           /\ yielded[i][Len(yielded[i])] = f
           /\ Contains(Slice(f, 2, Len(f)), START_MARKER))
  /\ [][\A i \in Live :
          (pc[i] = "yield" /\ TwoStarts(buffer[i]) /\ buffer'[i] # buffer[i]) =>
            \E rest \in { Slice(buffer[i], IndexOf(buffer[i], END_MARKER) + 2,
                                Len(buffer[i])) } :
              /\ buffer'[i] = rest
              /\ yielded'[i] = IF HasFrame(rest) THEN Append(yielded[i], ScanAll(rest)[1])
                                               ELSE yielded[i]]_vars

\* The frame with the second start marker inside it has been yielded, the
\* end marker having come in a later chunk than the first start marker.
C21_Witness ==
  \E i \in Live :
    /\ IsAscii(text[i])
    /\ pc[i] = "yield" /\ Len(yielded[i]) = 1
    /\ TwoStarts(buffer[i])
    /\ prev[i] > 0
    /\ IndexOf(buffer[i], START_MARKER) + 2 <= Len(buffer[i]) - (pos[i] - prev[i])
    /\ IndexOf(buffer[i], END_MARKER) + 2 > Len(buffer[i]) - (pos[i] - prev[i])

\* C22: a transport reads from its source only when the buffer holds no
\* complete frame: wherever recv/read is called the buffer does not hold
\* both markers, and every frame the chunks received so far completed has
\* been yielded.
C22_ReadsOnlyWithoutFrame ==
  \A i \in Live : pc[i] = "read" =>
    /\ ~(Contains(buffer[i], START_MARKER) /\ Contains(buffer[i], END_MARKER))
    /\ IsAscii(Received(i)) => yielded[i] = ScanAll(TextOf(i, Received(i)))

\* The last chunk completed two frames and left text in the buffer; both
\* frames have been yielded and the next read is due.
C22_Witness ==
  \E i \in Live :
    /\ pc[i] = "read"
    /\ buffer[i] # <<>>
    /\ IsAscii(text[i])
    /\ Len(yielded[i]) >= Len(ScanAll(SubSeq(text[i], 1, prev[i]))) + 2

\* b holds a start marker and no end marker.
StartNoEnd(b) == Contains(b, START_MARKER) /\ ~Contains(b, END_MARKER)

\* Instance i reads a chunk in this step, and the chunk it reads.
ReadsChunk(i) == pc[i] = "read" /\ pc'[i] \in {"read", "yield"}

ChunkRead(i) == TextOf(i, SubSeq(text[i], pos[i] + 1, pos'[i]))

\* C23 as stated: while the buffer holds a start marker and no end marker,
\* a further chunk that does not contain "!!" yields nothing and removes
\* nothing: the buffer grows by exactly the chunk.
C23_PartialKeptAcrossChunks ==
  [][\A i \in Live :
       ReadsChunk(i) /\ StartNoEnd(buffer[i]) /\ ~Contains(ChunkRead(i), END_MARKER) =>
         /\ yielded'[i] = yielded[i]
         /\ buffer'[i] = buffer[i] \o ChunkRead(i)]_vars

\* C23 amended: the same for a further chunk that leaves the buffer without
\* an end marker, that is, one that neither contains "!!" nor completes a
\* "!" the buffer ends with; the buffer grows by the decoded text of the
\* chunk.
C23_PartialKeptWhileNoEndMarker ==
  [][\A i \in Live :
       ReadsChunk(i) /\ StartNoEnd(buffer[i])
         /\ ~Contains(buffer[i] \o ChunkRead(i), END_MARKER) =>
         /\ yielded'[i] = yielded[i]
         /\ pc'[i] = "read"
         /\ buffer'[i] = buffer[i] \o ChunkRead(i)]_vars

\* A start marker that came before the last chunk is still in the buffer,
\* with all the text received since, and nothing has been yielded.
C23_Witness ==
  \E i \in Live :
    /\ pc[i] = "read" /\ StartNoEnd(buffer[i])
    /\ yielded[i] = <<>>
    /\ pos[i] > prev[i]
    /\ pos[i] - Len(buffer[i]) + IndexOf(buffer[i], START_MARKER) + 2 <= prev[i]
    /\ buffer[i] = SubSeq(text[i], pos[i] - Len(buffer[i]) + 1, pos[i])

\* max_frames frames have been decoded and the command is in its loop.
LimitReached ==
  sc.pc = "loop" /\ sc.max_frames # 0 /\ sc.frame_count >= sc.max_frames

\* C24: once max_frames frames have been decoded, the stream command
\* leaves the loop without requesting a further frame: it does not resume
\* the reader's generator, which would cut the buffer and read from the
\* source; the generator stays where it is or is dropped.
C24_NoPullAfterLimit ==
  [][LimitReached => /\ pc'[1] \in {pc[1], "done"}
                     /\ pos'[1] = pos[1]
                     /\ buffer'[1] = buffer[1]
                     /\ yielded'[1] = yielded[1]]_vars

\* The stream command made a reader and entered its loop.
HasReader == ReaderKind(sc.source) # "off"

\* The command is past its streaming loop: the loop was entered (the
\* reader's generator was started) and left.
LeftLoop == sc.pc \in {"save", "outer", "end"} /\ pc[1] = "done"

\* C25 as stated: on every way out of the streaming loop (source
\* exhausted, max_frames reached, Ctrl+C, an exception of the reader)
\* reader.close() is called exactly once before the command returns or
\* exits: never while the loop runs, once by the time the command is past
\* the finally clause, and the reader then holds no open resource.  A
\* command that ended before its loop has closed nothing.
C25_ClosedOnceOnEveryExit ==
  /\ sc.pc \in {"setup", "loop", "counted", "finally"} => sc.closes = 0
  /\ (HasReader /\ LeftLoop) => sc.closes = 1 /\ res[1] = "none"
  /\ (sc.pc \in {"save", "outer", "end"} /\ ~LeftLoop) => sc.closes = 0

\* C25, amended: reader.close() is never called while the loop runs and
\* never more than once; on every way out of the loop it has been called
\* exactly once, and the reader holds no open resource, by the time the
\* command is past the finally clause, unless Ctrl+C came while the
\* finally clause itself ran: then the command ends with
\* KeyboardInterrupt, the call not made or not finished.  A command that
\* ended before its loop has closed nothing.
C25_ClosedOnceUnlessInterruptedInFinally ==
  /\ sc.closes <= 1
  /\ sc.pc \in {"setup", "loop", "counted", "finally"} => sc.closes = 0
  /\ (HasReader /\ LeftLoop /\ sc.abort # "finally") => sc.closes = 1 /\ res[1] = "none"
  /\ sc.abort = "finally" => (LeftLoop /\ sc.status = "KeyboardInterrupt")
  /\ (sc.pc \in {"save", "outer", "end"} /\ ~LeftLoop) => sc.closes = 0

\* The connection was refused: the reader's exception left the loop, the
\* reader was closed once and the command ended with exit status 1.
C25_Witness ==
  /\ sc.pc = "end" /\ sc.status = "exit1"
  /\ exc[1] = "OSError" /\ sc.failed
  /\ sc.closes = 1

\* The decodings of the frames the reader has yielded.
Decodings ==
  [k \in 1..Len(yielded[1]) |-> decode_frame(yielded[1][k], sc.metric, FALSE)]

\* a is b without some of its members.
IsSubSeq(a, b) ==
  \E f \in [1..Len(a) -> 1..Len(b)] :
    /\ \A i, j \in 1..Len(a) : i < j => f[i] < f[j]
    /\ \A i \in 1..Len(a) : a[i] = b[f[i]]

\* C26: in the stream command a frame whose decode raises is a warning
\* only.  The step that warns leaves frame_count, the results and the
\* display as they were, and the command in its loop, the reader's
\* generator suspended for the next pull, neither failed nor ended.  A
\* frame that is stored is stored as its own decoding, whatever warnings
\* came before it.  At every point the results are decodings of yielded
\* frames in their order, every frame dealt with is a warning or a result,
\* and the command fails only through the reader.
C26_DecodeFailureIsWarningOnly ==
  /\ [](/\ IsSubSeq(sc.all_results, Decodings)
        /\ sc.warnings + Len(sc.all_results) \in {sc.seen, sc.seen + 1}
        /\ sc.warnings + Len(sc.all_results) # sc.seen => sc.interrupted
        /\ sc.failed => exc[1] \notin {"none", "KeyboardInterrupt"})
  /\ [][/\ sc'.warnings # sc.warnings =>
             /\ sc'.warnings = sc.warnings + 1
             /\ sc'.frame_count = sc.frame_count
             /\ sc'.all_results = sc.all_results
             /\ sc'.displayed = sc.displayed
             /\ sc'.seen = sc.seen + 1
             /\ sc'.pc = "loop" /\ pc'[1] = "yield"
             /\ sc'.status = "none" /\ ~sc'.failed /\ ~sc'.interrupted
        /\ sc'.all_results # sc.all_results =>
             /\ sc'.all_results =
                  Append(sc.all_results, decode_frame(FrameAtHand, sc.metric, FALSE))
             /\ sc'.warnings = sc.warnings]_vars

\* The decode of the first frame raised and the second, a different frame,
\* was decoded, counted and stored.
C26_Witness ==
  /\ sc.seen = 2 /\ sc.warnings = 1 /\ sc.frame_count = 1
  /\ Len(yielded[1]) >= 2
  /\ sc.all_results = <<decode_frame(yielded[1][2], sc.metric, FALSE)>>
  /\ sc.all_results # <<decode_frame(yielded[1][1], sc.metric, FALSE)>>
  /\ sc.displayed = 1

\* Instance i goes through the end of an iteration of the inner loop in
\* this step: the buffer is cut and the loop's test is made again.
Iterates(i) ==
  /\ pc[i] = "yield"
  /\ pc'[i] # pc[i] \/ yielded'[i] # yielded[i] \/ buffer'[i] # buffer[i]

\* C27: the inner extraction loop ends after finitely many iterations for
\* any buffer, because every iteration removes at least two characters
\* from the buffer: it leaves a proper suffix of the buffer, at least two
\* characters shorter, and reads nothing, so that a buffer of n characters
\* is good for at most n/2 iterations.
C27_IterationShortensBuffer ==
  [][\A i \in Live : Iterates(i) =>
       /\ Len(buffer'[i]) <= Len(buffer[i]) - 2
       /\ buffer'[i] = SubSeq(buffer[i], Len(buffer[i]) - Len(buffer'[i]) + 1,
                              Len(buffer[i]))
       /\ pos'[i] = pos[i]
       /\ Len(yielded'[i]) <= Len(yielded[i]) + 1]_vars

\* The first chunk has taken the inner loop through an iteration that
\* removed exactly two characters (an end marker at the head of the
\* buffer) and into a second one.
C27_Witness ==
  \E i \in Live :
    /\ pc[i] = "yield" /\ prev[i] = 0
    /\ Len(yielded[i]) = 2
    /\ Len(buffer[i]) = pos[i] - 2

\* Instance i is at its read with the source open, and the read of this
\* step returns no data.
AtOpenRead(i) == pc[i] = "read" /\ res[i] = "open"

EmptyRead(i) == AtOpenRead(i) /\ pos'[i] = pos[i]

\* C28: in SerialReader.stream() a read that returns no data leaves the
\* buffer unchanged, yields nothing and does not end the stream; a later
\* read that completes a frame yields it; the stream never ends by itself
\* (only a read that raises ends it).  In TCPReader.stream() a read that
\* returns no data ends the stream.
C28_EmptyReadSerialVersusTcp ==
  /\ [][\A i \in Live :
          /\ (kind[i] = "serial" /\ EmptyRead(i)) =>
                /\ buffer'[i] = buffer[i]
                /\ yielded'[i] = yielded[i]
                /\ pc'[i] = "read" /\ exc'[i] = exc[i]
          /\ (kind[i] = "serial" /\ AtOpenRead(i) /\ pos'[i] > pos[i]
                /\ HasFrame(buffer[i] \o ChunkRead(i))) =>
                /\ pc'[i] = "yield"
                /\ Len(yielded'[i]) = Len(yielded[i]) + 1
          /\ (kind[i] \in SocketKinds /\ EmptyRead(i) /\ pc'[i] # pc[i]) =>
                pc'[i] = "done" /\ exc'[i] = "none"]_vars
  /\ [](\A i \in Live :
          (kind[i] = "serial" /\ pc[i] = "done") => exc[i] = "SerialException")

\* A serial read returned no data while part of a frame was buffered and
\* more text was still to come; the stream goes on.
C28_Witness ==
  \E i \in Live :
    /\ kind[i] = "serial" /\ pc[i] = "read" /\ res[i] = "open"
    /\ pos[i] > 0 /\ prev[i] = pos[i]
    /\ StartNoEnd(buffer[i])
    /\ pos[i] < Len(text[i])

\* C29: for input text in which the frame splitter finds exactly one
\* frame, the decode command's data points and errors equal those of
\* decoding that one frame alone: text before the frame's start marker or
\* after its end marker has no effect on the result.
C29_SingleFrameAsAlone ==
  (Ran /\ Len(InputFrames) = 1) =>
    \E alone \in { decode_text(InputFrames[1], cmd.metric, cmd.strict,
                              cmd.convert_to_metric, cmd.convert_to_fps) } :
      /\ out.status = alone.status
      /\ out.data_points = alone.data_points
      /\ out.errors = alone.errors

\* The JSON output of the decode command for input with several frames.
CombinedJson ==
  Ran /\ out.status = "ok" /\ cmd.format = "json" /\ Len(InputFrames) > 1

\* The last data point of dps with the code.
LastWith(dps, code) ==
  dps[CHOOSE k \in 1..Len(dps) :
        /\ dps[k].symbol_code = code
        /\ \A j \in (k + 1)..Len(dps) : dps[j].symbol_code # code]

\* C30: in the JSON output for multi-frame input, "data" holds exactly one
\* entry per distinct symbol code among the combined data points, with the
\* values of the last data point with that code in frame order; "errors"
\* holds every error of every frame's result, in frame order; "frames" is
\* the number of results the batch decode returned.
C30_JsonOfCombinedResult ==
  CombinedJson =>
    /\ out.json.layout = "combined"
    /\ \A a, b \in 1..Len(out.json.data) :
         out.json.data[a].key = out.json.data[b].key => a = b
    /\ { out.json.data[a].key : a \in 1..Len(out.json.data) }
         = { out.data_points[k].symbol_code : k \in 1..Len(out.data_points) }
    /\ \A a \in 1..Len(out.json.data) :
         \E dp \in { LastWith(out.data_points, out.json.data[a].key) } :
           /\ out.json.data[a].entry.value = dp.parsed_value
           /\ out.json.data[a].entry.raw_value = dp.raw_value
           /\ out.json.data[a].entry.unit = dp.unit
    /\ LaidEndToEnd(out.json.errors, out.results, "errors")
    /\ out.json.frames = Len(out.results)

\* Two frames gave the same code with different values, and a frame had an
\* error: "data" has fewer entries than there are data points.
C30_Witness ==
  /\ CombinedJson
  /\ Len(out.json.data) < Len(out.data_points)
  /\ \E j, k \in 1..Len(out.data_points) :
       /\ j < k
       /\ out.data_points[j].symbol_code = out.data_points[k].symbol_code
       /\ out.data_points[j].parsed_value # out.data_points[k].parsed_value
  /\ out.json.errors # <<>>

====
